---- MODULE Spec2Model ----
(***************************************************************************)
(* vulkpy: the asynchronous dispatch and dependency-tracking engine of     *)
(* vulkpy.Array / vulkpy.GPU (src/vulkpy/vkarray.py).                      *)
(*                                                                         *)
(* The host is one sequential Python thread.  Every Array method is one    *)
(* action; the only place where the host suspends is job.wait() inside     *)
(* Array.wait, so that call is split into its entry and its return.  The   *)
(* device (the _vkarray backend) is a second process: it starts a          *)
(* submitted job once every semaphore of its wait list has been signalled  *)
(* and finishes it some time later.                                        *)
(***************************************************************************)
EXTENDS Integers, Sequences, FiniteSets, TLC

VARIABLES
    arrays,     \* the Array objects, in order of construction: shape, buffer, job
    buffers,    \* the device buffers, in order of creation: element count
    jobs,       \* every GPU._submit call, in order: its arguments and the Op it used
    jobState,   \* the device's progress on each job
    cache,      \* the functools.cache of GPU._createOp: key -> Op handle
    ops,        \* every backend gpu.createOp call, in order (an Op handle indexes it)
    host,       \* where the host thread is: idle, or blocked in job.wait()
    last,       \* probe: the host call that returned (or raised) last
    memory,     \* the contents of each buffer, as the writes that made them
    nn          \* the objects of vulkpy.nn: a Module and a Parameter

vars == <<arrays, buffers, jobs, jobState, cache, ops, host, last, memory, nn>>

----------------------------------------------------------------------------
(* Bounds of the model *)

MaxJobs == 2
MaxArrays == 2
MaxShapeJobs == 1
MaxForwards == 2

(* `self.job = None` and every other absent object reference *)
None == 0

(* local_size_x of every elementwise kernel, local_size_y of matmul *)
LocalSize == 64

(* Optional keyword arguments: <<>> is "not given", <<v>> is the value v *)
NotGiven == <<>>
Given(v) == <<v>>

Range(s) == {s[i] : i \in DOMAIN s}

RECURSIVE prod(_)
prod(shape) ==
    IF Len(shape) = 0 THEN 1 ELSE Head(shape) * prod(Tail(shape))

----------------------------------------------------------------------------
(* The kernel files, Array._add .. Array._iclamp_ss *)

Array ==
    [
       _add |-> "add.spv", _sub |-> "sub.spv", _mul |-> "mul.spv",
       _div |-> "div.spv", _iadd |-> "iadd.spv", _isub |-> "isub.spv",
       _imul |-> "imul.spv", _idiv |-> "idiv.spv", _add_scalar |-> "add_scalar.spv",
       _sub_scalar |-> "sub_scalar.spv", _mul_scalar |-> "mul_scalar.spv", _div_scalar |-> "div_scalar.spv",
       _iadd_scalar |-> "iadd_scalar.spv", _isub_scalar |-> "isub_scalar.spv", _imul_scalar |-> "imul_scalar.spv",
       _idiv_scalar |-> "idiv_scalar.spv", _rsub_scalar |-> "rsub_scalar.spv", _rdiv_scalar |-> "rdiv_scalar.spv",
       _matmul |-> "matmul.spv", _max |-> "max.spv", _min |-> "min.spv",
       _imax |-> "imax.spv", _imin |-> "imin.spv", _max_scalar |-> "max_scalar.spv",
       _min_scalar |-> "min_scalar.spv", _imax_scalar |-> "imax_scalar.spv", _imin_scalar |-> "imin_scalar.spv",
       _abs |-> "abs.spv", _sign |-> "sign.spv", _iabs |-> "iabs.spv",
       _isign |-> "isign.spv", _sin |-> "sin.spv", _cos |-> "cos.spv",
       _tan |-> "tan.spv", _isin |-> "isin.spv", _icos |-> "icos.spv",
       _itan |-> "itan.spv", _asin |-> "asin.spv", _acos |-> "acos.spv",
       _atan |-> "atan.spv", _iasin |-> "iasin.spv", _iacos |-> "iacos.spv",
       _iatan |-> "iatan.spv", _sinh |-> "sinh.spv", _cosh |-> "cosh.spv",
       _tanh |-> "tanh.spv", _isinh |-> "isinh.spv", _icosh |-> "icosh.spv",
       _itanh |-> "itanh.spv", _asinh |-> "asinh.spv", _acosh |-> "acosh.spv",
       _atanh |-> "atanh.spv", _iasinh |-> "iasinh.spv", _iacosh |-> "iacosh.spv",
       _iatanh |-> "iatanh.spv", _exp |-> "exp.spv", _log |-> "log.spv",
       _iexp |-> "iexp.spv", _ilog |-> "ilog.spv", _exp2 |-> "exp2.spv",
       _log2 |-> "log2.spv", _iexp2 |-> "iexp2.spv", _ilog2 |-> "ilog2.spv",
       _sqrt |-> "sqrt.spv", _invsqrt |-> "invsqrt.spv", _isqrt |-> "isqrt.spv",
       _iinvsqrt |-> "iinvsqrt.spv", _pow |-> "pow.spv", _ipow |-> "ipow.spv",
       _pow_scalar |-> "pow_scalar.spv", _ipow_scalar |-> "ipow_scalar.spv", _rpow_scalar |-> "rpow_scalar.spv",
       _clamp |-> "clamp.spv", _iclamp |-> "iclamp.spv", _clamp_sv |-> "clamp_sv.spv",
       _iclamp_sv |-> "iclamp_sv.spv", _clamp_vs |-> "clamp_vs.spv", _iclamp_vs |-> "iclamp_vs.spv",
       _clamp_ss |-> "clamp_ss.spv", _iclamp_ss |-> "iclamp_ss.spv"
    ]

(* The jobs whose written buffer is their first buffer: the "i" kernels *)
InplaceSpv ==
    {Array._iadd, Array._isub, Array._imul, Array._idiv, Array._iadd_scalar,
     Array._isub_scalar, Array._imul_scalar, Array._idiv_scalar, Array._imax,
     Array._imin, Array._imax_scalar, Array._imin_scalar, Array._ipow,
     Array._ipow_scalar, Array._iclamp, Array._iclamp_sv, Array._iclamp_vs,
     Array._iclamp_ss, Array._iabs, Array._isign, Array._isin, Array._icos,
     Array._itan, Array._iasin, Array._iacos, Array._iatan, Array._isinh,
     Array._icosh, Array._itanh, Array._iasinh, Array._iacosh, Array._iatanh,
     Array._iexp, Array._ilog, Array._iexp2, Array._ilog2, Array._isqrt,
     Array._iinvsqrt}

----------------------------------------------------------------------------
(* The program state as one value, so that a method is a function from the *)
(* state before the call to the state after it.                            *)

World ==
    [arrays |-> arrays, buffers |-> buffers, jobs |-> jobs,
     jobState |-> jobState, cache |-> cache, ops |-> ops]

(* What a method call leaves behind: the state, the exception raised ("" *)
(* when none) and the Array returned (None when none).                   *)
Return(w, ret) == [w |-> w, raised |-> "", ret |-> ret]
Raise(w, exc) == [w |-> w, raised |-> exc, ret |-> None]

(* An operand of a method: an Array (v is its index in arrays) or a float *)
ArrayArg(i) == [isArray |-> TRUE, v |-> i]
ScalarArg(x) == [isArray |-> FALSE, v |-> x]

----------------------------------------------------------------------------
(* The value types of the backend module _vkarray: two values built from *)
(* equal arguments are equal and hash alike.                             *)

DataShape(x, y, z) == <<x, y, z>>
VectorParams(size) == <<"VectorParams", size>>
VectorScalarParams(size, scalar) == <<"VectorScalarParams", size, scalar>>
VectorScalar2Params(size, scalar1, scalar2) ==
    <<"VectorScalar2Params", size, scalar1, scalar2>>
MatMulParams(rowA, contractSize, columnB) ==
    <<"MatMulParams", rowA, contractSize, columnB>>

----------------------------------------------------------------------------
(* class GPU *)

(* Mutant: no memoization, gpu.createOp runs on every call *)
_createOp_Uncached(w, spv, n, params, local_size_x, local_size_y, local_size_z) ==
    LET key == <<spv, n, params, local_size_x, local_size_y, local_size_z>>
        op == Len(w.ops) + 1
    IN  [w |-> [w EXCEPT
                   !.ops = Append(@, <<n, params, spv, local_size_x,
                                       local_size_y, local_size_z>>),
                   !.cache = (key :> op) @@ @],
         op |-> op]

(* Mutant: the cache keeps the latest entry only *)
_createOp_KeepsLatestOnly(w, spv, n, params, local_size_x, local_size_y, local_size_z) ==
    LET key == <<spv, n, params, local_size_x, local_size_y, local_size_z>>
    IN  IF key \in DOMAIN w.cache
        THEN [w |-> w, op |-> w.cache[key]]
        ELSE LET op == Len(w.ops) + 1
             IN  [w |-> [w EXCEPT
                            !.ops = Append(@, <<n, params, spv, local_size_x,
                                                local_size_y, local_size_z>>),
                            !.cache = (key :> op)],
                  op |-> op]

(* @functools.cache: the key is the argument tuple; gpu.createOp runs on a *)
(* miss only, and its result is stored under the key.                      *)
_createOp(w, spv, n, params, local_size_x, local_size_y, local_size_z) ==
    LET key == <<spv, n, params, local_size_x, local_size_y, local_size_z>>
    IN  IF key \in DOMAIN w.cache
        THEN [w |-> w, op |-> w.cache[key]]
        ELSE LET op == Len(w.ops) + 1
             IN  [w |-> [w EXCEPT
                            !.ops = Append(@, <<n, params, spv, local_size_x,
                                                local_size_y, local_size_z>>),
                            !.cache = (key :> op) @@ @],
                  op |-> op]

(* Mutant: the wait list also names the job being submitted *)
_submit_WaitsForItself(w, spv, local_size_x, local_size_y, local_size_z, bufs, shape, params, semaphores) ==
    LET c == _createOp(w, spv, Len(bufs), params,
                       local_size_x, local_size_y, local_size_z)
    IN  [w |-> [c.w EXCEPT
                   !.jobs = Append(@, [spv |-> spv,
                                       local_size |-> <<local_size_x,
                                                        local_size_y,
                                                        local_size_z>>,
                                       op |-> c.op, buffers |-> bufs,
                                       shape |-> shape, params |-> params,
                                       semaphores |->
                                           Append(semaphores,
                                                  Len(c.w.jobs) + 1)]),
                   !.jobState = Append(@, "submitted")],
         job |-> Len(c.w.jobs) + 1]

(* gpu.submit returns at once with a new Job; the job is the index of the *)
(* call in jobs, and its semaphore is named by the same index.            *)
_submit(w, spv, local_size_x, local_size_y, local_size_z, bufs, shape, params, semaphores) ==
    LET c == _createOp(w, spv, Len(bufs), params,
                       local_size_x, local_size_y, local_size_z)
    IN  [w |-> [c.w EXCEPT
                   !.jobs = Append(@, [spv |-> spv,
                                       local_size |-> <<local_size_x,
                                                        local_size_y,
                                                        local_size_z>>,
                                       op |-> c.op, buffers |-> bufs,
                                       shape |-> shape, params |-> params,
                                       semaphores |-> semaphores]),
                   !.jobState = Append(@, "submitted")],
         job |-> Len(c.w.jobs) + 1]

----------------------------------------------------------------------------
(* class Array *)

(* Mutant: with neither data nor shape an Array of one element is made *)
Array__init___NeverRaises(w, data, shape) ==
    IF data # NotGiven
    THEN Return([w EXCEPT
                    !.buffers = Append(@, Len(data[1].flat)),
                    !.arrays = Append(@, [shape |-> data[1].shape,
                                          buffer |-> Len(w.buffers) + 1,
                                          job |-> None])],
                Len(w.arrays) + 1)
    ELSE LET given == IF shape # NotGiven THEN shape[1] ELSE <<1>>
         IN  Return([w EXCEPT
                        !.buffers = Append(@, prod(given)),
                        !.arrays = Append(@, [shape |-> given,
                                              buffer |-> Len(w.buffers) + 1,
                                              job |-> None])],
                    Len(w.arrays) + 1)

(* Array.__init__: data is an ndarray value [shape, flat], shape a tuple *)
Array__init__(w, data, shape) ==
    IF data # NotGiven
    THEN Return([w EXCEPT
                    !.buffers = Append(@, Len(data[1].flat)),
                    !.arrays = Append(@, [shape |-> data[1].shape,
                                          buffer |-> Len(w.buffers) + 1,
                                          job |-> None])],
                Len(w.arrays) + 1)
    ELSE IF shape # NotGiven
    THEN Return([w EXCEPT
                    !.buffers = Append(@, prod(shape[1])),
                    !.arrays = Append(@, [shape |-> shape[1],
                                          buffer |-> Len(w.buffers) + 1,
                                          job |-> None])],
                Len(w.arrays) + 1)
    ELSE Raise(w, "ValueError")

(* np.array_equal(self.shape, other.shape); TRUE when the check passes *)
_check_shape(w, self, other) ==
    w.arrays[self].shape = w.arrays[other].shape

(* [b.buffer for b in buffers] *)
BufferList(w, arrs) ==
    [i \in DOMAIN arrs |-> w.arrays[arrs[i]].buffer]

(* Mutant: no semaphore is passed to the submission *)
SemaphoreList_Empty(w, arrs) ==
    <<>>

(* Mutant: the semaphore of the job about to be submitted is passed too *)
SemaphoreList_AndOfTheNewJob(w, arrs) ==
    LET HasJob(b) == w.arrays[b].job # None
        pending == SelectSeq(arrs, HasJob)
    IN  [i \in DOMAIN pending |-> w.arrays[pending[i]].job]
            \o <<Len(w.jobs) + 1>>

(* [b.job.getSemaphore() for b in buffers if b.job is not None] *)
SemaphoreList(w, arrs) ==
    LET HasJob(b) == w.arrays[b].job # None
        pending == SelectSeq(arrs, HasJob)
    IN  [i \in DOMAIN pending |-> w.arrays[pending[i]].job]

(* Mutant: the job returned by the submission is not recorded *)
SetJob_Forgotten(w, x, job) ==
    w

(* Mutant: the submissions that captured the old job of x are made to *)
(* wait for the new one                                              *)
SetJob_Retargets(w, x, job) ==
    LET old == w.arrays[x].job
        Retarget(sems) == [i \in DOMAIN sems |->
                              IF sems[i] = old THEN job ELSE sems[i]]
    IN  [w EXCEPT !.arrays[x].job = job,
                  !.jobs = [j \in DOMAIN @ |->
                               [@[j] EXCEPT !.semaphores = Retarget(@)]]]

(* x.job = job *)
SetJob(w, x, job) ==
    [w EXCEPT !.arrays[x].job = job]

(* Mutant: only self's pending job is waited for *)
_opVec_WaitsForSelfOnly(w, self, spv, arrs) ==
    LET size == w.buffers[w.arrays[self].buffer]
    IN  _submit(w, spv, LocalSize, 1, 1,
                BufferList(w, arrs),
                DataShape(size, 1, 1),
                VectorParams(size),
                SemaphoreList(w, <<self>>))

_opVec(w, self, spv, arrs) ==
    LET size == w.buffers[w.arrays[self].buffer]
    IN  _submit(w, spv, LocalSize, 1, 1,
                BufferList(w, arrs),
                DataShape(size, 1, 1),
                VectorParams(size),
                SemaphoreList(w, arrs))

(* Mutant: the result Array is allocated before the shapes are compared *)
_opVec3_AllocatesFirst(w, self, spv, other) ==
    LET a == Array__init__(w, NotGiven, Given(w.arrays[self].shape))
    IN  IF ~_check_shape(a.w, self, other)
        THEN Raise(a.w, "ValueError")
        ELSE LET s == _opVec(a.w, self, spv, <<self, other, a.ret>>)
             IN  Return(SetJob(s.w, a.ret, s.job), a.ret)

_opVec3(w, self, spv, other) ==
    IF ~_check_shape(w, self, other)
    THEN Raise(w, "ValueError")
    ELSE LET a == Array__init__(w, NotGiven, Given(w.arrays[self].shape))
             s == _opVec(a.w, self, spv, <<self, other, a.ret>>)
         IN  Return(SetJob(s.w, a.ret, s.job), a.ret)

(* Mutant: the in-place branch records the job in other *)
_opVec2_JobToOther(w, self, spv, other) ==
    IF other # None
    THEN IF ~_check_shape(w, self, other)
         THEN Raise(w, "ValueError")
         ELSE LET s == _opVec(w, self, spv, <<self, other>>)
              IN  Return(SetJob(s.w, other, s.job), None)
    ELSE LET a == Array__init__(w, NotGiven, Given(w.arrays[self].shape))
             s == _opVec(a.w, self, spv, <<self, a.ret>>)
         IN  Return(SetJob(s.w, a.ret, s.job), a.ret)

_opVec2(w, self, spv, other) ==
    IF other # None
    THEN IF ~_check_shape(w, self, other)
         THEN Raise(w, "ValueError")
         ELSE LET s == _opVec(w, self, spv, <<self, other>>)
              IN  Return(SetJob(s.w, self, s.job), None)
    ELSE LET a == Array__init__(w, NotGiven, Given(w.arrays[self].shape))
             s == _opVec(a.w, self, spv, <<self, a.ret>>)
         IN  Return(SetJob(s.w, a.ret, s.job), a.ret)

_opVec1(w, self, spv) ==
    LET s == _opVec(w, self, spv, <<self>>)
    IN  Return(SetJob(s.w, self, s.job), None)

_opVecScalar(w, self, spv, arrs, scalar) ==
    LET size == w.buffers[w.arrays[self].buffer]
    IN  _submit(w, spv, LocalSize, 1, 1,
                BufferList(w, arrs),
                DataShape(size, 1, 1),
                VectorScalarParams(size, scalar),
                SemaphoreList(w, arrs))

(* Mutant: the job is recorded in self, not in the result *)
_opVecScalar2_JobToSelf(w, self, spv, other) ==
    LET a == Array__init__(w, NotGiven, Given(w.arrays[self].shape))
        s == _opVecScalar(a.w, self, spv, <<self, a.ret>>, other)
    IN  Return(SetJob(s.w, self, s.job), a.ret)

_opVecScalar2(w, self, spv, other) ==
    LET a == Array__init__(w, NotGiven, Given(w.arrays[self].shape))
        s == _opVecScalar(a.w, self, spv, <<self, a.ret>>, other)
    IN  Return(SetJob(s.w, a.ret, s.job), a.ret)

(* Mutant: the job of the submission is dropped *)
_opVecScalar1_JobDropped(w, self, spv, other) ==
    LET s == _opVecScalar(w, self, spv, <<self>>, other)
    IN  Return(s.w, None)

_opVecScalar1(w, self, spv, other) ==
    LET s == _opVecScalar(w, self, spv, <<self>>, other)
    IN  Return(SetJob(s.w, self, s.job), None)

_opVec2Scalar(w, self, spv, arrs, scalars) ==
    LET size == w.buffers[w.arrays[self].buffer]
    IN  _submit(w, spv, LocalSize, 1, 1,
                BufferList(w, arrs),
                DataShape(size, 1, 1),
                VectorScalar2Params(size, scalars[1], scalars[2]),
                SemaphoreList(w, arrs))

__add__(w, self, other) ==
    IF other.isArray
    THEN _opVec3(w, self, Array._add, other.v)
    ELSE _opVecScalar2(w, self, Array._add_scalar, other.v)

__sub__(w, self, other) ==
    IF other.isArray
    THEN _opVec3(w, self, Array._sub, other.v)
    ELSE _opVecScalar2(w, self, Array._sub_scalar, other.v)

__mul__(w, self, other) ==
    IF other.isArray
    THEN _opVec3(w, self, Array._mul, other.v)
    ELSE _opVecScalar2(w, self, Array._mul_scalar, other.v)

__truediv__(w, self, other) ==
    IF other.isArray
    THEN _opVec3(w, self, Array._div, other.v)
    ELSE _opVecScalar2(w, self, Array._div_scalar, other.v)

__iadd__(w, self, other) ==
    LET r == IF other.isArray
             THEN _opVec2(w, self, Array._iadd, other.v)
             ELSE _opVecScalar1(w, self, Array._iadd_scalar, other.v)
    IN  IF r.raised # "" THEN r ELSE Return(r.w, self)

__isub__(w, self, other) ==
    LET r == IF other.isArray
             THEN _opVec2(w, self, Array._isub, other.v)
             ELSE _opVecScalar1(w, self, Array._isub_scalar, other.v)
    IN  IF r.raised # "" THEN r ELSE Return(r.w, self)

__imul__(w, self, other) ==
    LET r == IF other.isArray
             THEN _opVec2(w, self, Array._imul, other.v)
             ELSE _opVecScalar1(w, self, Array._imul_scalar, other.v)
    IN  IF r.raised # "" THEN r ELSE Return(r.w, self)

(* Mutant: the scalar branch submits the kernel of *= *)
__itruediv___KernelOfMul(w, self, other) ==
    LET r == IF other.isArray
             THEN _opVec2(w, self, Array._idiv, other.v)
             ELSE _opVecScalar1(w, self, Array._imul_scalar, other.v)
    IN  IF r.raised # "" THEN r ELSE Return(r.w, self)

__itruediv__(w, self, other) ==
    LET r == IF other.isArray
             THEN _opVec2(w, self, Array._idiv, other.v)
             ELSE _opVecScalar1(w, self, Array._idiv_scalar, other.v)
    IN  IF r.raised # "" THEN r ELSE Return(r.w, self)

__radd__(w, self, other) ==
    _opVecScalar2(w, self, Array._add_scalar, other.v)

(* Mutant: the kernel of array - scalar *)
__rsub___NotReversed(w, self, other) ==
    _opVecScalar2(w, self, Array._sub_scalar, other.v)

__rsub__(w, self, other) ==
    _opVecScalar2(w, self, Array._rsub_scalar, other.v)

__rmul__(w, self, other) ==
    _opVecScalar2(w, self, Array._mul_scalar, other.v)

__rtruediv__(w, self, other) ==
    _opVecScalar2(w, self, Array._rdiv_scalar, other.v)

(* Mutant: the rank of other is not checked *)
__matmul___NoRankCheckOfOther(w, self, other) ==
    LET sa == w.arrays[self].shape
        sb == w.arrays[other].shape
    IN  IF (Len(sa) > 3) \/ (sa[Len(sa)] # sb[1])
        THEN Raise(w, "ValueError")
        ELSE LET cat == SubSeq(sa, 1, Len(sa) - 1) \o Tail(sb)
                 shape == IF Len(cat) = 0 THEN <<1>> ELSE cat
                 rowA == IF Len(sa) > 1 THEN sa[1] ELSE 1
                 contractSize == sa[Len(sa)]
                 columnB == IF Len(sb) > 1 THEN sb[2] ELSE 1
                 a == Array__init__(w, NotGiven, Given(shape))
                 s == _submit(a.w, Array._matmul, 1, LocalSize, 1,
                              <<a.w.arrays[self].buffer,
                                a.w.arrays[other].buffer,
                                a.w.arrays[a.ret].buffer>>,
                              DataShape(rowA, columnB, 1),
                              MatMulParams(rowA, contractSize, columnB),
                              SemaphoreList(a.w, <<self, other>>))
             IN  Return(SetJob(s.w, a.ret, s.job), a.ret)

(* Mutant: the column count is the last dimension of other *)
__matmul___LastColumn(w, self, other) ==
    LET sa == w.arrays[self].shape
        sb == w.arrays[other].shape
    IN  IF (Len(sa) > 3) \/ (Len(sb) > 3) \/ (sa[Len(sa)] # sb[1])
        THEN Raise(w, "ValueError")
        ELSE LET cat == SubSeq(sa, 1, Len(sa) - 1) \o Tail(sb)
                 shape == IF Len(cat) = 0 THEN <<1>> ELSE cat
                 rowA == IF Len(sa) > 1 THEN sa[1] ELSE 1
                 contractSize == sa[Len(sa)]
                 columnB == IF Len(sb) > 1 THEN sb[Len(sb)] ELSE 1
                 a == Array__init__(w, NotGiven, Given(shape))
                 s == _submit(a.w, Array._matmul, 1, LocalSize, 1,
                              <<a.w.arrays[self].buffer,
                                a.w.arrays[other].buffer,
                                a.w.arrays[a.ret].buffer>>,
                              DataShape(rowA, columnB, 1),
                              MatMulParams(rowA, contractSize, columnB),
                              SemaphoreList(a.w, <<self, other>>))
             IN  Return(SetJob(s.w, a.ret, s.job), a.ret)

__matmul__(w, self, other) ==
    LET sa == w.arrays[self].shape
        sb == w.arrays[other].shape
    IN  IF (Len(sa) > 3) \/ (Len(sb) > 3) \/ (sa[Len(sa)] # sb[1])
        THEN Raise(w, "ValueError")
        ELSE LET cat == SubSeq(sa, 1, Len(sa) - 1) \o Tail(sb)
                 shape == IF Len(cat) = 0 THEN <<1>> ELSE cat
                 rowA == IF Len(sa) > 1 THEN sa[1] ELSE 1
                 contractSize == sa[Len(sa)]
                 columnB == IF Len(sb) > 1 THEN sb[2] ELSE 1
                 a == Array__init__(w, NotGiven, Given(shape))
                 s == _submit(a.w, Array._matmul, 1, LocalSize, 1,
                              <<a.w.arrays[self].buffer,
                                a.w.arrays[other].buffer,
                                a.w.arrays[a.ret].buffer>>,
                              DataShape(rowA, columnB, 1),
                              MatMulParams(rowA, contractSize, columnB),
                              SemaphoreList(a.w, <<self, other>>))
             IN  Return(SetJob(s.w, a.ret, s.job), a.ret)

(* Mutant: the requested shape is stored as it is given *)
reshape_Unchecked(w, self, shape) ==
    Return([w EXCEPT !.arrays[self].shape = shape], None)

(* Mutant: a reshape that succeeds forgets the pending job *)
reshape_ForgetsJob(w, self, shape) ==
    IF (\A i \in DOMAIN shape : shape[i] >= 0)
           /\ prod(shape) = w.buffers[w.arrays[self].buffer]
    THEN Return([w EXCEPT !.arrays[self].shape = shape,
                          !.arrays[self].job = None], None)
    ELSE Raise(w, "ValueError")

(* self.array.shape = shape; self.shape = self.array.shape.  numpy's     *)
(* shape setter accepts one dimension of -1, which it infers, and raises *)
(* ValueError unless the element count is kept; self.shape is read back  *)
(* from the ndarray, so it is the resolved shape.                        *)
reshape(w, self, shape) ==
    LET size == w.buffers[w.arrays[self].buffer]
        unknown == {i \in DOMAIN shape : shape[i] = -1}
        known == prod(SelectSeq(shape, LAMBDA d : d # -1))
    IN  IF \E i \in DOMAIN shape : shape[i] < -1
        THEN Raise(w, "ValueError")
        ELSE IF Cardinality(unknown) > 1
        THEN Raise(w, "ValueError")
        ELSE IF Cardinality(unknown) = 1
        THEN IF known = 0 \/ size % known # 0
             THEN Raise(w, "ValueError")
             ELSE Return([w EXCEPT !.arrays[self].shape =
                             [i \in DOMAIN shape |->
                                 IF shape[i] = -1 THEN size \div known
                                 ELSE shape[i]]],
                         None)
        ELSE IF known # size
        THEN Raise(w, "ValueError")
        ELSE Return([w EXCEPT !.arrays[self].shape = shape], None)

max(w, self, other, inplace) ==
    IF other.isArray
    THEN IF inplace
         THEN _opVec2(w, self, Array._imax, other.v)
         ELSE _opVec3(w, self, Array._max, other.v)
    ELSE IF inplace
         THEN _opVecScalar1(w, self, Array._imax_scalar, other.v)
         ELSE _opVecScalar2(w, self, Array._max_scalar, other.v)

min(w, self, other, inplace) ==
    IF other.isArray
    THEN IF inplace
         THEN _opVec2(w, self, Array._imin, other.v)
         ELSE _opVec3(w, self, Array._min, other.v)
    ELSE IF inplace
         THEN _opVecScalar1(w, self, Array._imin_scalar, other.v)
         ELSE _opVecScalar2(w, self, Array._min_scalar, other.v)
abs(w, self, inplace) ==
    IF inplace THEN _opVec1(w, self, Array._iabs) ELSE _opVec2(w, self, Array._abs, None)

sign(w, self, inplace) ==
    IF inplace THEN _opVec1(w, self, Array._isign) ELSE _opVec2(w, self, Array._sign, None)

sin(w, self, inplace) ==
    IF inplace THEN _opVec1(w, self, Array._isin) ELSE _opVec2(w, self, Array._sin, None)

cos(w, self, inplace) ==
    IF inplace THEN _opVec1(w, self, Array._icos) ELSE _opVec2(w, self, Array._cos, None)

tan(w, self, inplace) ==
    IF inplace THEN _opVec1(w, self, Array._itan) ELSE _opVec2(w, self, Array._tan, None)

asin(w, self, inplace) ==
    IF inplace THEN _opVec1(w, self, Array._iasin) ELSE _opVec2(w, self, Array._asin, None)

acos(w, self, inplace) ==
    IF inplace THEN _opVec1(w, self, Array._iacos) ELSE _opVec2(w, self, Array._acos, None)

atan(w, self, inplace) ==
    IF inplace THEN _opVec1(w, self, Array._iatan) ELSE _opVec2(w, self, Array._atan, None)

sinh(w, self, inplace) ==
    IF inplace THEN _opVec1(w, self, Array._isinh) ELSE _opVec2(w, self, Array._sinh, None)

cosh(w, self, inplace) ==
    IF inplace THEN _opVec1(w, self, Array._icosh) ELSE _opVec2(w, self, Array._cosh, None)

tanh(w, self, inplace) ==
    IF inplace THEN _opVec1(w, self, Array._itanh) ELSE _opVec2(w, self, Array._tanh, None)

asinh(w, self, inplace) ==
    IF inplace THEN _opVec1(w, self, Array._iasinh) ELSE _opVec2(w, self, Array._asinh, None)

acosh(w, self, inplace) ==
    IF inplace THEN _opVec1(w, self, Array._iacosh) ELSE _opVec2(w, self, Array._acosh, None)

atanh(w, self, inplace) ==
    IF inplace THEN _opVec1(w, self, Array._iatanh) ELSE _opVec2(w, self, Array._atanh, None)

exp(w, self, inplace) ==
    IF inplace THEN _opVec1(w, self, Array._iexp) ELSE _opVec2(w, self, Array._exp, None)

log(w, self, inplace) ==
    IF inplace THEN _opVec1(w, self, Array._ilog) ELSE _opVec2(w, self, Array._log, None)

exp2(w, self, inplace) ==
    IF inplace THEN _opVec1(w, self, Array._iexp2) ELSE _opVec2(w, self, Array._exp2, None)

log2(w, self, inplace) ==
    IF inplace THEN _opVec1(w, self, Array._ilog2) ELSE _opVec2(w, self, Array._log2, None)

sqrt(w, self, inplace) ==
    IF inplace THEN _opVec1(w, self, Array._isqrt) ELSE _opVec2(w, self, Array._sqrt, None)

invsqrt(w, self, inplace) ==
    IF inplace THEN _opVec1(w, self, Array._iinvsqrt) ELSE _opVec2(w, self, Array._invsqrt, None)
__pow__(w, self, other) ==
    IF other.isArray
    THEN _opVec3(w, self, Array._pow, other.v)
    ELSE _opVecScalar2(w, self, Array._pow_scalar, other.v)

__ipow__(w, self, other) ==
    LET r == IF other.isArray
             THEN _opVec2(w, self, Array._ipow, other.v)
             ELSE _opVecScalar1(w, self, Array._ipow_scalar, other.v)
    IN  IF r.raised # "" THEN r ELSE Return(r.w, self)

(* Mutant: the reversed power overwrites self *)
__rpow___InPlace(w, self, other) ==
    _opVecScalar1(w, self, Array._rpow_scalar, other.v)

__rpow__(w, self, other) ==
    _opVecScalar2(w, self, Array._rpow_scalar, other.v)
(* Mutant: the two scalar bounds are packed max first *)
clamp_ScalarsSwapped(w, self, lo, hi, inplace) ==
    LET min_is_array == lo.isArray
        max_is_array == hi.isArray
    IN  IF min_is_array /\ ~_check_shape(w, self, lo.v)
        THEN Raise(w, "ValueError")
        ELSE IF max_is_array /\ ~_check_shape(w, self, hi.v)
        THEN Raise(w, "ValueError")
        ELSE IF ~inplace
        THEN LET a == Array__init__(w, NotGiven, Given(w.arrays[self].shape))
                 ret == a.ret
                 s == IF min_is_array /\ max_is_array
                      THEN _opVec(a.w, self, Array._clamp,
                                  <<self, lo.v, hi.v, ret>>)
                      ELSE IF max_is_array
                      THEN _opVecScalar(a.w, self, Array._clamp_sv,
                                        <<self, hi.v, ret>>, lo.v)
                      ELSE IF min_is_array
                      THEN _opVecScalar(a.w, self, Array._clamp_vs,
                                        <<self, lo.v, ret>>, hi.v)
                      ELSE _opVec2Scalar(a.w, self, Array._clamp_ss,
                                         <<self, ret>>, <<hi.v, lo.v>>)
             IN  Return(SetJob(s.w, ret, s.job), ret)
        ELSE LET s == IF min_is_array /\ max_is_array
                      THEN _opVec(w, self, Array._iclamp,
                                  <<self, lo.v, hi.v>>)
                      ELSE IF max_is_array
                      THEN _opVecScalar(w, self, Array._iclamp_sv,
                                        <<self, hi.v>>, lo.v)
                      ELSE IF min_is_array
                      THEN _opVecScalar(w, self, Array._iclamp_vs,
                                        <<self, lo.v>>, hi.v)
                      ELSE _opVec2Scalar(w, self, Array._iclamp_ss,
                                         <<self>>, <<hi.v, lo.v>>)
             IN  Return(SetJob(s.w, self, s.job), None)

(* Array.clamp(min, max, inplace); lo and hi are its min and max *)
clamp(w, self, lo, hi, inplace) ==
    LET min_is_array == lo.isArray
        max_is_array == hi.isArray
    IN  IF min_is_array /\ ~_check_shape(w, self, lo.v)
        THEN Raise(w, "ValueError")
        ELSE IF max_is_array /\ ~_check_shape(w, self, hi.v)
        THEN Raise(w, "ValueError")
        ELSE IF ~inplace
        THEN LET a == Array__init__(w, NotGiven, Given(w.arrays[self].shape))
                 ret == a.ret
                 s == IF min_is_array /\ max_is_array
                      THEN _opVec(a.w, self, Array._clamp,
                                  <<self, lo.v, hi.v, ret>>)
                      ELSE IF max_is_array
                      THEN _opVecScalar(a.w, self, Array._clamp_sv,
                                        <<self, hi.v, ret>>, lo.v)
                      ELSE IF min_is_array
                      THEN _opVecScalar(a.w, self, Array._clamp_vs,
                                        <<self, lo.v, ret>>, hi.v)
                      ELSE _opVec2Scalar(a.w, self, Array._clamp_ss,
                                         <<self, ret>>, <<lo.v, hi.v>>)
             IN  Return(SetJob(s.w, ret, s.job), ret)
        ELSE LET s == IF min_is_array /\ max_is_array
                      THEN _opVec(w, self, Array._iclamp,
                                  <<self, lo.v, hi.v>>)
                      ELSE IF max_is_array
                      THEN _opVecScalar(w, self, Array._iclamp_sv,
                                        <<self, hi.v>>, lo.v)
                      ELSE IF min_is_array
                      THEN _opVecScalar(w, self, Array._iclamp_vs,
                                        <<self, lo.v>>, hi.v)
                      ELSE _opVec2Scalar(w, self, Array._iclamp_ss,
                                         <<self>>, <<lo.v, hi.v>>)
             IN  Return(SetJob(s.w, self, s.job), None)

----------------------------------------------------------------------------
(* The host thread *)

UnaryMethods ==
    {"abs", "sign", "sin", "cos", "tan", "asin", "acos", "atan", "sinh",
     "cosh", "tanh", "asinh", "acosh", "atanh", "exp", "log", "exp2", "log2",
     "sqrt", "invsqrt"}

BinaryMethods ==
    {"__add__", "__sub__", "__mul__", "__truediv__", "__pow__"}

InplaceBinaryMethods ==
    {"__iadd__", "__isub__", "__imul__", "__itruediv__", "__ipow__"}

ReversedMethods ==
    {"__radd__", "__rsub__", "__rmul__", "__rtruediv__", "__rpow__"}

MaxMinMethods == {"max", "min"}

Methods ==
    UnaryMethods \cup BinaryMethods \cup InplaceBinaryMethods
        \cup ReversedMethods \cup MaxMinMethods \cup {"clamp", "__matmul__"}

(* The methods that take the keyword argument inplace *)
InplaceFlags(m) ==
    IF m \in UnaryMethods \cup MaxMinMethods \cup {"clamp"}
    THEN BOOLEAN ELSE {FALSE}

(* The argument lists a method accepts, over the Arrays i and the floats x *)
ArgLists(m, is, xs) ==
    LET A == {ArrayArg(i) : i \in is}
        S == {ScalarArg(x) : x \in xs}
    IN  CASE m \in UnaryMethods -> {<<>>}
          [] m \in ReversedMethods -> {<<s>> : s \in S}
          [] m = "__matmul__" -> {<<a>> : a \in A}
          [] m = "clamp" -> (A \cup S) \X (A \cup S)
          [] OTHER -> {<<o>> : o \in A \cup S}

(* Python's method dispatch *)
Invoke(w, m, self, args, inplace) ==
    CASE m = "__add__" -> __add__(w, self, args[1])
      [] m = "__sub__" -> __sub__(w, self, args[1])
      [] m = "__mul__" -> __mul__(w, self, args[1])
      [] m = "__truediv__" -> __truediv__(w, self, args[1])
      [] m = "__iadd__" -> __iadd__(w, self, args[1])
      [] m = "__isub__" -> __isub__(w, self, args[1])
      [] m = "__imul__" -> __imul__(w, self, args[1])
      [] m = "__itruediv__" -> __itruediv__(w, self, args[1])
      [] m = "__radd__" -> __radd__(w, self, args[1])
      [] m = "__rsub__" -> __rsub__(w, self, args[1])
      [] m = "__rmul__" -> __rmul__(w, self, args[1])
      [] m = "__rtruediv__" -> __rtruediv__(w, self, args[1])
      [] m = "__matmul__" -> __matmul__(w, self, args[1].v)
      [] m = "max" -> max(w, self, args[1], inplace)
      [] m = "min" -> min(w, self, args[1], inplace)
      [] m = "abs" -> abs(w, self, inplace)
      [] m = "sign" -> sign(w, self, inplace)
      [] m = "sin" -> sin(w, self, inplace)
      [] m = "cos" -> cos(w, self, inplace)
      [] m = "tan" -> tan(w, self, inplace)
      [] m = "asin" -> asin(w, self, inplace)
      [] m = "acos" -> acos(w, self, inplace)
      [] m = "atan" -> atan(w, self, inplace)
      [] m = "sinh" -> sinh(w, self, inplace)
      [] m = "cosh" -> cosh(w, self, inplace)
      [] m = "tanh" -> tanh(w, self, inplace)
      [] m = "asinh" -> asinh(w, self, inplace)
      [] m = "acosh" -> acosh(w, self, inplace)
      [] m = "atanh" -> atanh(w, self, inplace)
      [] m = "exp" -> exp(w, self, inplace)
      [] m = "log" -> log(w, self, inplace)
      [] m = "exp2" -> exp2(w, self, inplace)
      [] m = "log2" -> log2(w, self, inplace)
      [] m = "sqrt" -> sqrt(w, self, inplace)
      [] m = "invsqrt" -> invsqrt(w, self, inplace)
      [] m = "__pow__" -> __pow__(w, self, args[1])
      [] m = "__ipow__" -> __ipow__(w, self, args[1])
      [] m = "__rpow__" -> __rpow__(w, self, args[1])
      [] m = "clamp" -> clamp(w, self, args[1], args[2], inplace)

Idle == [pc |-> "idle", call |-> "", self |-> None]

(* The probe last: what a host call was and how it ended.  A probe that   *)
(* is "off" stays off; otherwise it holds the latest call, "" for none.   *)
Returned(call, self, args, inplace, raised, ret, waited) ==
    [call |-> call, self |-> self, args |-> args, inplace |-> inplace,
     raised |-> raised, ret |-> ret, waited |-> waited]

ProbeOff == Returned("off", None, <<>>, FALSE, "", None, FALSE)
ProbeArmed == Returned("", None, <<>>, FALSE, "", None, FALSE)

Observe(rec) == IF last = ProbeOff THEN last ELSE rec

(* What a buffer holds: the write that made its contents, the job that  *)
(* did it (None for the host) and what that job read.  A buffer holds    *)
(* what it was created with until the host or a job writes it.           *)
Contents(by, value, job, inputs) ==
    [by |-> by, value |-> value, job |-> job, inputs |-> inputs]

Fresh(b) == Contents("createBuffer", b, None, <<>>)
HostWrite(value) == Contents("host", value, None, <<>>)

Becomes(w) ==
    /\ memory' = [b \in DOMAIN w.buffers |->
                     IF b \in DOMAIN memory THEN memory[b] ELSE Fresh(b)]
    /\ arrays' = w.arrays
    /\ buffers' = w.buffers
    /\ jobs' = w.jobs
    /\ jobState' = w.jobState
    /\ cache' = w.cache
    /\ ops' = w.ops

(* What the probe keeps of a construction: which arguments were given,  *)
(* the dimensions of data marked as ArrayArg and those of shape as      *)
(* ScalarArg.                                                           *)
ConstructorCall(data, shape) ==
    IF data # NotGiven /\ shape # NotGiven THEN "Array(data, shape)"
    ELSE IF data # NotGiven THEN "Array(data)"
    ELSE IF shape # NotGiven THEN "Array(shape)"
    ELSE "Array()"

ConstructorArgs(data, shape) ==
    (IF data = NotGiven THEN <<>>
     ELSE [i \in DOMAIN data[1].shape |-> ArrayArg(data[1].shape[i])])
        \o (IF shape = NotGiven THEN <<>>
            ELSE [i \in DOMAIN shape[1] |-> ScalarArg(shape[1][i])])

(* Array(gpu, data=..., shape=...) *)
NewArray(data, shape) ==
    /\ host.pc = "idle"
    /\ \E r \in {Array__init__(World, data, shape)} :
           /\ Becomes(r.w)
           /\ last' = Observe(Returned(ConstructorCall(data, shape), None,
                                       ConstructorArgs(data, shape), FALSE,
                                       r.raised, r.ret, FALSE))
    /\ UNCHANGED <<host, nn>>

(* Mutant: the call is held until the jobs of its wait list are done *)
Call_WaitsForItsWaitList(m, self, args, inplace) ==
    /\ host.pc = "idle"
    /\ self \in DOMAIN arrays
    /\ \E r \in {Invoke(World, m, self, args, inplace)} :
           /\ \/ Len(r.w.jobs) = Len(jobs)
              \/ \A s \in Range(r.w.jobs[Len(r.w.jobs)].semaphores) :
                     jobState[s] = "done"
           /\ Becomes(r.w)
           /\ last' = Observe(Returned(m, self, args, inplace,
                                       r.raised, r.ret, FALSE))
    /\ UNCHANGED <<host, nn>>

(* x.m(args, inplace=inplace): an operator or function that submits work *)
Call(m, self, args, inplace) ==
    /\ host.pc = "idle"
    /\ self \in DOMAIN arrays
    /\ \E r \in {Invoke(World, m, self, args, inplace)} :
           /\ Becomes(r.w)
           /\ last' = Observe(Returned(m, self, args, inplace,
                                       r.raised, r.ret, FALSE))
    /\ UNCHANGED <<host, nn>>

(* x.reshape(shape); the probe keeps the requested dimensions as args *)
Reshape(self, shape) ==
    /\ host.pc = "idle"
    /\ self \in DOMAIN arrays
    /\ \E r \in {reshape(World, self, shape)} :
           /\ Becomes(r.w)
           /\ last' = Observe(Returned("reshape", self,
                                       [i \in DOMAIN shape |-> ScalarArg(shape[i])],
                                       FALSE, r.raised, r.ret, FALSE))
    /\ UNCHANGED <<host, nn>>

Materializers == {"wait", "__getitem__", "__str__", "__array__"}

(* Array.wait, called directly or by __getitem__, __str__, __array__: up *)
(* to the call of job.wait(), where the host blocks.                     *)
Materialize(call, self) ==
    /\ host.pc = "idle"
    /\ self \in DOMAIN arrays
    /\ IF arrays[self].job # None
       THEN /\ host' = [pc |-> "job.wait", call |-> call, self |-> self]
            /\ UNCHANGED last
       ELSE /\ last' = Observe(Returned(call, self, <<>>, FALSE, "", None, FALSE))
            /\ UNCHANGED host
    /\ UNCHANGED <<arrays, buffers, jobs, jobState, cache, ops, memory, nn>>

(* Mutant: the pending-job reference is kept after the wait *)
WaitReturn_KeepsJob ==
    /\ host.pc = "job.wait"
    /\ jobState[arrays[host.self].job] = "done"
    /\ host' = Idle
    /\ last' = Observe(Returned(host.call, host.self, <<>>, FALSE, "", None, TRUE))
    /\ UNCHANGED <<arrays, buffers, jobs, jobState, cache, ops, memory, nn>>

(* job.wait() returns once the device has completed the job; then *)
(* self.job = None and the caller reads self.array.               *)
WaitReturn ==
    /\ host.pc = "job.wait"
    /\ jobState[arrays[host.self].job] = "done"
    /\ arrays' = [arrays EXCEPT ![host.self].job = None]
    /\ host' = Idle
    /\ last' = Observe(Returned(host.call, host.self, <<>>, FALSE, "", None, TRUE))
    /\ UNCHANGED <<buffers, jobs, jobState, cache, ops, memory, nn>>

----------------------------------------------------------------------------
(* The device *)

(* What job j of the list js leaves in memory m: its kernel reads the    *)
(* buffers bound to it and writes one of them, the first for an in-place *)
(* kernel and the last, the newly allocated result, for any other.       *)
Executed(m, js, j) ==
    LET job == js[j]
        out == IF job.spv \in InplaceSpv THEN 1 ELSE Len(job.buffers)
        ins == IF job.spv \in InplaceSpv THEN Len(job.buffers)
               ELSE Len(job.buffers) - 1
    IN  [m EXCEPT ![job.buffers[out]] =
            Contents(job.spv, None, j, [i \in 1..ins |-> m[job.buffers[i]]])]

(* A submitted job starts once every semaphore it waits on is signalled *)
JobStart(j) ==
    /\ jobState[j] = "submitted"
    /\ \A s \in Range(jobs[j].semaphores) : jobState[s] = "done"
    /\ jobState' = [jobState EXCEPT ![j] = "running"]
    /\ UNCHANGED <<arrays, buffers, jobs, cache, ops, host, last, memory, nn>>

(* A running job completes: its result is in memory and its semaphore *)
(* is signalled                                                       *)
JobFinish(j) ==
    /\ jobState[j] = "running"
    /\ jobState' = [jobState EXCEPT ![j] = "done"]
    /\ memory' = Executed(memory, jobs, j)
    /\ UNCHANGED <<arrays, buffers, jobs, cache, ops, host, last, nn>>

Device ==
    \E j \in DOMAIN jobs : JobStart(j) \/ JobFinish(j)

Read ==
    \E call \in Materializers, self \in DOMAIN arrays :
        Materialize(call, self)

(* GPU.wait, "Wait All GPU Operations": up to the call of gpu.wait(), *)
(* where the host blocks; no Array is touched.                       *)
GPUWait ==
    /\ host.pc = "idle"
    /\ host' = [pc |-> "gpu.wait", call |-> "GPU.wait", self |-> None]
    /\ UNCHANGED <<arrays, buffers, jobs, jobState, cache, ops, last, memory, nn>>

(* gpu.wait() returns once the device has completed every job *)
GPUWaitReturn ==
    /\ host.pc = "gpu.wait"
    /\ \A j \in DOMAIN jobs : jobState[j] = "done"
    /\ host' = Idle
    /\ last' = Observe(Returned(host.call, None, <<>>, FALSE, "", None, TRUE))
    /\ UNCHANGED <<arrays, buffers, jobs, jobState, cache, ops, memory, nn>>

----------------------------------------------------------------------------
(* Host writes *)

(* Array.__setitem__ with the key [:] : the memory after                 *)
(* self.array[:] = value, which the host writes at once                  *)
__setitem__(m, w, self, value) ==
    [m EXCEPT ![w.arrays[self].buffer] = HostWrite(value)]

(* x[:] = value on the host *)
SetItem(self, value) ==
    /\ host.pc = "idle"
    /\ self \in DOMAIN arrays
    /\ memory' = __setitem__(memory, World, self, value)
    /\ last' = Observe(Returned("__setitem__", self, <<ScalarArg(value)>>,
                                FALSE, "", None, FALSE))
    /\ UNCHANGED <<arrays, buffers, jobs, jobState, cache, ops, host, nn>>

----------------------------------------------------------------------------
(* vulkpy.nn: class Parameter *)

(* Parameter(gpu, shape), trainable and with no initializer: value and  *)
(* grad are new Arrays of that shape, each set to 0.0 by the host       *)
Parameter__init__(w, m, shape) ==
    LET value == Array__init__(w, NotGiven, Given(shape))
        grad == Array__init__(value.w, NotGiven, Given(shape))
        made == [b \in DOMAIN grad.w.buffers |->
                    IF b \in DOMAIN m THEN m[b] ELSE Fresh(b)]
    IN  [w |-> grad.w,
         m |-> __setitem__(__setitem__(made, grad.w, value.ret, 0),
                           grad.w, grad.ret, 0),
         self |-> [value |-> value.ret, grad |-> grad.ret]]

(* Parameter.add_grad(grad): self.grad += grad *)
add_grad(w, self, grad) == __iadd__(w, self.grad, ArrayArg(grad))

(* Parameter.zero_grad(): self.grad[:] = 0.0 *)
zero_grad(m, w, self) == __setitem__(m, w, self.grad, 0)

AddGrad(grad) ==
    /\ host.pc = "idle"
    /\ nn.parameter.grad # None
    /\ grad \in DOMAIN arrays
    /\ \E r \in {add_grad(World, nn.parameter, grad)} :
           /\ Becomes(r.w)
           /\ last' = Observe(Returned("add_grad", nn.parameter.grad,
                                       <<ArrayArg(grad)>>, FALSE,
                                       r.raised, None, FALSE))
    /\ UNCHANGED <<host, nn>>

ZeroGrad ==
    /\ host.pc = "idle"
    /\ nn.parameter.grad # None
    /\ memory' = zero_grad(memory, World, nn.parameter)
    /\ last' = Observe(Returned("zero_grad", nn.parameter.grad, <<>>,
                                FALSE, "", None, FALSE))
    /\ UNCHANGED <<arrays, buffers, jobs, jobState, cache, ops, host, nn>>

----------------------------------------------------------------------------
(* vulkpy.nn: class Module *)

(* Module.forward: the base class has none *)
Module_forward(w, x) == Raise(w, "NotImplementedError")

(* forward of the layer ReLU: the elementwise maximum of x and 0.0, a new *)
(* Array                                                                  *)
ReLU_forward(w, x) == max(w, x, ScalarArg(0), FALSE)

(* self.forward(x), bound by the class of self *)
forward(w, self, x) ==
    IF self.class = "ReLU" THEN ReLU_forward(w, x) ELSE Module_forward(w, x)

(* Mutant: the input is stored before its rank is looked at *)
Module__call___StoresFirst(w, self, x) ==
    IF Len(w.arrays[x].shape) < 2
    THEN [w |-> w, self |-> [self EXCEPT !._x = x],
          raised |-> "ValueError", ret |-> None]
    ELSE LET called == [self EXCEPT !._x = x, !.forwards = @ + 1]
             f == forward(w, called, x)
         IN  IF f.raised # ""
             THEN [w |-> f.w, self |-> called, raised |-> f.raised, ret |-> None]
             ELSE [w |-> f.w, self |-> [called EXCEPT !._y = f.ret],
                   raised |-> "", ret |-> f.ret]

(* Module.__call__(x): the Module after the call, with what the call *)
(* raised or returned                                                 *)
Module__call__(w, self, x) ==
    IF Len(w.arrays[x].shape) < 2
    THEN [w |-> w, self |-> self, raised |-> "ValueError", ret |-> None]
    ELSE LET called == [self EXCEPT !._x = x, !.forwards = @ + 1]
             f == forward(w, called, x)
         IN  IF f.raised # ""
             THEN [w |-> f.w, self |-> called, raised |-> f.raised, ret |-> None]
             ELSE [w |-> f.w, self |-> [called EXCEPT !._y = f.ret],
                   raised |-> "", ret |-> f.ret]

(* module(x) on the host *)
ModuleCall(x) ==
    /\ host.pc = "idle"
    /\ x \in DOMAIN arrays
    /\ \E r \in {Module__call__(World, nn.module, x)} :
           /\ Becomes(r.w)
           /\ nn' = [nn EXCEPT !.module = r.self]
           /\ last' = Observe(Returned("Module.__call__", None, <<ArrayArg(x)>>,
                                       FALSE, r.raised, r.ret, FALSE))
    /\ UNCHANGED host

----------------------------------------------------------------------------
(* Start states.  A prelude is a short program the host has already run:  *)
(* it constructs Arrays of the given shapes and then runs its steps,      *)
(* <<"w", i>> for arrays[i] += 1.0 and <<"r", i>> for arrays[i].wait().   *)

EmptyWorld ==
    [arrays |-> <<>>, buffers |-> <<>>, jobs |-> <<>>, jobState |-> <<>>,
     cache |-> <<>>, ops |-> <<>>]

RECURSIVE Constructed(_, _)
Constructed(w, shapes) ==
    IF shapes = <<>> THEN w
    ELSE Constructed(Array__init__(w, NotGiven, Given(Head(shapes))).w,
                     Tail(shapes))

(* The jobs that have completed when job j has: j and all it waited for *)
RECURSIVE Completed(_, _)
Completed(w, j) ==
    {j} \cup UNION {Completed(w, s) : s \in Range(w.jobs[j].semaphores)}

(* x.wait() has returned: the device has completed x.job *)
Waited(w, x) ==
    IF w.arrays[x].job = None THEN w
    ELSE [w EXCEPT
             !.jobState = [j \in DOMAIN @ |->
                             IF j \in Completed(w, w.arrays[x].job)
                             THEN "done" ELSE @[j]],
             !.arrays[x].job = None]

RECURSIVE Ran(_, _)
Ran(w, steps) ==
    IF steps = <<>> THEN w
    ELSE LET step == Head(steps)
         IN  Ran(IF step[1] = "w"
                 THEN __iadd__(w, step[2], ScalarArg(1)).w
                 ELSE Waited(w, step[2]),
                 Tail(steps))

(* The memory of a prelude's end: the jobs it has waited for have run, *)
(* in the order of their submission                                   *)
RECURSIVE Stored(_, _)
Stored(w, n) ==
    IF n = 0 THEN [b \in DOMAIN w.buffers |-> Fresh(b)]
    ELSE IF w.jobState[n] = "done" THEN Executed(Stored(w, n - 1), w.jobs, n)
    ELSE Stored(w, n - 1)

(* A Module of the given class that has not been called: _x and _y are *)
(* not set, forward has been called 0 times                            *)
NewModule(class) ==
    [class |-> class, _x |-> None, _y |-> None, forwards |-> 0]

(* No Module has been called and no Parameter made *)
NoObjects ==
    [module |-> NewModule("Module"),
     parameter |-> [value |-> None, grad |-> None]]

StartsWith(w, m, probe, objects) ==
    /\ memory = m
    /\ nn = objects
    /\ arrays = w.arrays
    /\ buffers = w.buffers
    /\ jobs = w.jobs
    /\ jobState = w.jobState
    /\ cache = w.cache
    /\ ops = w.ops
    /\ host = Idle
    /\ last = probe

StartsIn(w, probe) == StartsWith(w, Stored(w, Len(w.jobs)), probe, NoObjects)

----------------------------------------------------------------------------
(* Spec, the engine: any interleaving of out-of-place and in-place        *)
(* additions, materializations and device steps on one Array and on the   *)
(* results, up to MaxJobs submissions.  The probe is off.                 *)

EngineShapes == << <<2>> >>
EngineMethods == {"__add__", "__iadd__"}
EngineScalars == {1}

Init ==
    StartsIn(Constructed(EmptyWorld, EngineShapes), ProbeOff)

Operate ==
    \E m \in EngineMethods, self \in DOMAIN arrays :
        \E args \in ArgLists(m, DOMAIN arrays, EngineScalars),
           inplace \in InplaceFlags(m) :
            /\ Call(m, self, args, inplace)
            /\ Len(jobs') <= MaxJobs

Next ==
    \/ Operate
    \/ Read
    \/ WaitReturn
    \/ Device

Spec == Init /\ [][Next]_vars

(* The engine with a fair device: a job whose wait list has completed is *)
(* eventually started, a started job is eventually completed, and a      *)
(* job.wait() on a completed job eventually returns.                     *)
Fairness ==
    /\ \A j \in 1..MaxJobs :
           /\ WF_vars(j \in DOMAIN jobs /\ JobStart(j))
           /\ WF_vars(j \in DOMAIN jobs /\ JobFinish(j))
    /\ WF_vars(WaitReturn)

SpecFair == Init /\ [][Next]_vars /\ Fairness

----------------------------------------------------------------------------
(* SpecOps, one call: from a start state with pending, running, completed *)
(* and waited-for jobs, the host makes one call of any method with any    *)
(* operands, or one materialization; the probe records it.                *)

OpsShapes ==
    { << <<2>>, <<2>>, <<2>> >>,
      << <<2>>, <<2>>, <<1, 2>> >>,
      << <<2>>, <<2>>, <<2, 2>> >> }

OpsSteps ==
    { <<>>,
      << <<"w", 1>> >>,
      << <<"w", 2>> >>,
      << <<"w", 1>>, <<"w", 3>> >>,
      << <<"w", 1>>, <<"w", 1>> >>,
      << <<"w", 1>>, <<"r", 1>>, <<"w", 2>> >> }

Scalars == {1, 2}

InitOps ==
    \E shapes \in OpsShapes, steps \in OpsSteps :
        StartsIn(Ran(Constructed(EmptyWorld, shapes), steps), ProbeArmed)

OperateOnce ==
    /\ last = ProbeArmed
    /\ \E m \in Methods, self \in DOMAIN arrays :
           \E args \in ArgLists(m, DOMAIN arrays, Scalars),
              inplace \in InplaceFlags(m) :
               Call(m, self, args, inplace)

ReadOnce ==
    /\ last = ProbeArmed
    /\ Read

GPUWaitOnce ==
    /\ last = ProbeArmed
    /\ GPUWait

NextOps ==
    \/ OperateOnce
    \/ ReadOnce
    \/ GPUWaitOnce
    \/ WaitReturn
    \/ GPUWaitReturn
    \/ Device

SpecOps == InitOps /\ [][NextOps]_vars

----------------------------------------------------------------------------
(* SpecMatmul, one a @ b: the operands have any shapes of rank 1 to 3     *)
(* with dimensions 1 and 2, or one of two shapes of rank 4.               *)

MatmulShapes ==
    LET D == {1, 2}
    IN  {<<x>> : x \in D} \cup (D \X D) \cup (D \X D \X D)
            \cup {<<1, 1, 1, 2>>, <<2, 1, 1, 1>>}

MatmulSteps ==
    { <<>>,
      << <<"w", 1>> >>,
      << <<"w", 1>>, <<"w", 2>> >>,
      << <<"w", 1>>, <<"w", 2>>, <<"r", 2>> >> }

InitMatmul ==
    \E sa \in MatmulShapes, sb \in MatmulShapes, steps \in MatmulSteps :
        StartsIn(Ran(Constructed(EmptyWorld, <<sa, sb>>), steps), ProbeArmed)

MatmulOnce ==
    /\ last = ProbeArmed
    /\ \E self \in DOMAIN arrays, other \in DOMAIN arrays :
           Call("__matmul__", self, <<ArrayArg(other)>>, FALSE)

NextMatmul ==
    \/ MatmulOnce
    \/ ReadOnce
    \/ WaitReturn
    \/ Device

SpecMatmul == InitMatmul /\ [][NextMatmul]_vars

----------------------------------------------------------------------------
(* SpecShape, the life of Arrays: constructions from a shape, from data   *)
(* or from neither, reshapes, operations that allocate results,           *)
(* materializations and device steps, up to MaxArrays Arrays.  The probe  *)
(* is off.                                                                *)

ShapeInputs == {<<2>>, <<2, 2>>}
DataInputs == {[shape |-> <<1, 2>>, flat |-> <<0, 0>>]}
ReshapeInputs == {<<2>>, <<4>>, <<3>>, <<-1, 2>>, <<-1, -1>>, <<-2>>}
ShapeMethods == {"__iadd__", "__matmul__"}

InitShape == StartsIn(EmptyWorld, ProbeOff)

Construct ==
    /\ Len(arrays) < MaxArrays
    /\ \/ \E shape \in ShapeInputs : NewArray(NotGiven, Given(shape))
       \/ \E data \in DataInputs : NewArray(Given(data), NotGiven)
       \/ NewArray(NotGiven, NotGiven)

Reshapes ==
    \E self \in DOMAIN arrays, shape \in ReshapeInputs : Reshape(self, shape)

OperateShape ==
    \E m \in ShapeMethods, self \in DOMAIN arrays, other \in DOMAIN arrays :
        /\ Call(m, self, <<ArrayArg(other)>>, FALSE)
        /\ Len(arrays') <= MaxArrays
        /\ Len(jobs') <= MaxShapeJobs

NextShape ==
    \/ Construct
    \/ Reshapes
    \/ OperateShape
    \/ Read
    \/ WaitReturn
    \/ Device

SpecShape == InitShape /\ [][NextShape]_vars

----------------------------------------------------------------------------
(* SpecArrays, one construction or one reshape: from the start states of  *)
(* SpecOps the host constructs one Array, from data, from a shape, from   *)
(* both or from neither, or reshapes one; the probe records it.           *)

ConstructOnce ==
    /\ last = ProbeArmed
    /\ \E data \in {NotGiven} \cup {Given(d) : d \in DataInputs},
          shape \in {NotGiven} \cup {Given(s) : s \in ShapeInputs} :
           NewArray(data, shape)

ReshapeOnce ==
    /\ last = ProbeArmed
    /\ Reshapes

NextArrays ==
    \/ ConstructOnce
    \/ ReshapeOnce
    \/ ReadOnce
    \/ WaitReturn
    \/ Device

SpecArrays == InitOps /\ [][NextArrays]_vars

----------------------------------------------------------------------------
(* SpecModule: a Module of the base class or a layer is called, up to     *)
(* MaxForwards times with an input it accepts, on Arrays of rank 1, 2     *)
(* and 3 and on its own results, while the device runs the jobs.          *)

ModuleShapes == << <<2>>, <<1, 2>>, <<1, 2, 2>> >>
ModuleSteps == { <<>>, << <<"w", 2>> >> }
Classes == {"Module", "ReLU"}

InitModule ==
    \E steps \in ModuleSteps, class \in Classes :
        \E w \in {Ran(Constructed(EmptyWorld, ModuleShapes), steps)} :
            StartsWith(w, Stored(w, Len(w.jobs)), ProbeArmed,
                       [NoObjects EXCEPT !.module = NewModule(class)])

Forwards ==
    /\ nn.module.forwards < MaxForwards
    /\ \E x \in DOMAIN arrays : ModuleCall(x)

NextModule ==
    \/ Forwards
    \/ Device

SpecModule == InitModule /\ [][NextModule]_vars

----------------------------------------------------------------------------
(* SpecGrad: a trainable Parameter of shape (2,) and a gradient Array of  *)
(* that shape; gradients are accumulated and cleared, Arrays are assigned *)
(* to and read by the host in any order, up to MaxJobs submissions,       *)
(* while the device runs the jobs.                                        *)

GradShape == <<2>>
Assigned == {0, 1}

InitGrad ==
    \E w \in {Constructed(EmptyWorld, <<GradShape>>)} :
        \E p \in {Parameter__init__(w, Stored(w, 0), GradShape)} :
            StartsWith(p.w, p.m, ProbeArmed,
                       [NoObjects EXCEPT !.parameter = p.self])

Accumulates ==
    /\ Len(jobs) < MaxJobs
    /\ \E grad \in DOMAIN arrays \ {nn.parameter.value, nn.parameter.grad} :
           AddGrad(grad)

Assigns ==
    \E self \in DOMAIN arrays, value \in Assigned : SetItem(self, value)

NextGrad ==
    \/ Accumulates
    \/ ZeroGrad
    \/ Assigns
    \/ Read
    \/ WaitReturn
    \/ Device

SpecGrad == InitGrad /\ [][NextGrad]_vars

----------------------------------------------------------------------------
(* Vocabulary of the properties *)

(* The step is a submission: GPU._submit was called once *)
Submits == Len(jobs') = Len(jobs) + 1

(* The job of the submission this step makes *)
NewJob == jobs'[Len(jobs')]

WritesInPlace(j) == jobs[j].spv \in InplaceSpv

(* The device has started job j *)
Started(j) == jobState[j] \in {"running", "done"}

----------------------------------------------------------------------------
(* C1  Read-after-write ordering.  Whenever a method submits work, every  *)
(* Array whose buffer is passed and which has a pending job at that       *)
(* moment has that job in the wait list of the submission; and a job the  *)
(* device has started finds every job of its wait list completed.         *)

C1_PendingJobsAreWaitedFor ==
    Submits =>
        \A x \in DOMAIN arrays :
            (/\ arrays[x].buffer \in Range(NewJob.buffers)
             /\ arrays[x].job # None)
                => arrays[x].job \in Range(NewJob.semaphores)

C1_StartedAfterWaitList ==
    \A j \in DOMAIN jobs :
        Started(j) => \A s \in Range(jobs[j].semaphores) : jobState[s] = "done"

C1_ReadAfterWrite ==
    [][C1_PendingJobsAreWaitedFor]_vars /\ []C1_StartedAfterWaitList

(* A three-buffer clamp whose bound has a pending job is running *)
C1_Witness ==
    /\ last.call = "clamp"
    /\ last.raised = ""
    /\ last.args[2].isArray
    /\ Len(jobs[Len(jobs)].semaphores) > 1
    /\ jobState[Len(jobs)] = "running"

----------------------------------------------------------------------------
(* C2  Write-after-write ordering.  An in-place submission on a buffer,   *)
(* issued while the previous in-place job on that buffer has not          *)
(* completed, has that job in its wait list; and of two in-place jobs on  *)
(* one buffer the later is not started before the earlier has completed.  *)

SameTarget(e, l) ==
    /\ e < l
    /\ WritesInPlace(e)
    /\ WritesInPlace(l)
    /\ jobs[e].buffers[1] = jobs[l].buffers[1]

C2_LaterWaitsForEarlier ==
    (Submits /\ NewJob.spv \in InplaceSpv) =>
        \A e \in DOMAIN jobs :
            (/\ WritesInPlace(e)
             /\ jobs[e].buffers[1] = NewJob.buffers[1]
             /\ \A k \in DOMAIN jobs :
                    (k > e /\ WritesInPlace(k)) =>
                        jobs[k].buffers[1] # NewJob.buffers[1]
             /\ jobState[e] # "done")
                => e \in Range(NewJob.semaphores)

C2_WritesInIssueOrder ==
    \A e \in DOMAIN jobs, l \in DOMAIN jobs :
        (SameTarget(e, l) /\ Started(l)) => jobState[e] = "done"

C2_WriteAfterWrite ==
    [][C2_LaterWaitsForEarlier]_vars /\ []C2_WritesInIssueOrder

(* Two in-place jobs on one buffer, the later issued behind the earlier *)
C2_Witness ==
    \E e \in DOMAIN jobs, l \in DOMAIN jobs :
        /\ SameTarget(e, l)
        /\ e \in Range(jobs[l].semaphores)
        /\ jobState[l] = "running"

----------------------------------------------------------------------------
(* C3  Dependency chaining.  When a materialization returns from its      *)
(* wait, the job the Array was waiting for and every job that job         *)
(* depends on, directly or through other jobs, have completed.            *)

(* the buffer a job writes: the first for an in-place kernel, else the last *)
Written(j) ==
    IF WritesInPlace(j) THEN jobs[j].buffers[1]
    ELSE jobs[j].buffers[Len(jobs[j].buffers)]

(* j depends on the jobs of its wait list and on the earlier jobs that *)
(* wrote a buffer j is bound to                                        *)
DependsOn(j) ==
    Range(jobs[j].semaphores)
        \cup {e \in DOMAIN jobs : e < j /\ Written(e) \in Range(jobs[j].buffers)}

RECURSIVE Ancestors(_)
Ancestors(j) ==
    {j} \cup UNION {Ancestors(s) : s \in DependsOn(j)}

C3_ChainCompleted ==
    (host.pc = "job.wait" /\ host'.pc = "idle") =>
        \A j \in Ancestors(arrays[host.self].job) : jobState'[j] = "done"

C3_DependencyChaining == [][C3_ChainCompleted]_vars

(* d = c + ..., c itself a result with its own job; d has been read *)
C3_Witness ==
    \E d \in DOMAIN arrays, j \in DOMAIN jobs :
        /\ ~WritesInPlace(j)
        /\ jobs[j].buffers[Len(jobs[j].buffers)] = arrays[d].buffer
        /\ \E s \in Range(jobs[j].semaphores) : ~WritesInPlace(s)
        /\ arrays[d].job = None
        /\ host.pc = "idle"

----------------------------------------------------------------------------
(* C4  Materialization protocol.  wait, __getitem__, __str__, __array__   *)
(* on an Array with a pending job block the host, return only when that   *)
(* job has completed, and leave the Array without pending job; on an      *)
(* Array without pending job they return at once with no backend wait.    *)
(* Nothing else changes: not the other Arrays, not the jobs.              *)

C4_Returns ==
    (last' # last /\ last'.call \in Materializers) =>
        LET x == last'.self
        IN  /\ arrays' = [arrays EXCEPT ![x].job = None]
            /\ UNCHANGED <<buffers, jobs, jobState, cache, ops>>
            /\ IF arrays[x].job # None
               THEN /\ host.pc = "job.wait"
                    /\ last'.waited
                    /\ jobState[arrays[x].job] = "done"
               ELSE /\ host.pc = "idle"
                    /\ ~last'.waited

C4_Blocks ==
    (host.pc = "idle" /\ host'.pc = "job.wait") =>
        /\ arrays[host'.self].job # None
        /\ host'.call \in Materializers
        /\ UNCHANGED <<arrays, buffers, jobs, jobState, cache, ops, last>>

C4_Materialization == [][C4_Returns /\ C4_Blocks]_vars

(* __array__ has waited for a job; another Array still has a pending job *)
C4_Witness ==
    /\ last.call = "__array__"
    /\ last.waited
    /\ arrays[last.self].job = None
    /\ \E y \in DOMAIN arrays : arrays[y].job # None

----------------------------------------------------------------------------
(* C5  Shape-mismatch atomicity.  An elementwise method with an Array     *)
(* operand, or a clamp with an Array bound, whose shape differs from      *)
(* self's raises ValueError and leaves the Arrays, the buffers, the       *)
(* submissions and the cache of compiled operations as they were.         *)

ShapeCheckedMethods ==
    BinaryMethods \cup InplaceBinaryMethods \cup MaxMinMethods \cup {"clamp"}

ShapeMismatch(call) ==
    \E i \in DOMAIN call.args :
        /\ call.args[i].isArray
        /\ arrays[call.args[i].v].shape # arrays[call.self].shape

C5_RaisesAndChangesNothing ==
    (/\ last' # last
     /\ last'.call \in ShapeCheckedMethods
     /\ ShapeMismatch(last'))
        => /\ last'.raised = "ValueError"
           /\ UNCHANGED <<arrays, buffers, jobs, jobState, cache, ops>>

C5_ShapeMismatchAtomicity == [][C5_RaisesAndChangesNothing]_vars

(* clamp raised for its max bound, a (1, 2) Array against self of (2,) *)
C5_Witness ==
    /\ last.call = "clamp"
    /\ last.raised = "ValueError"
    /\ last.args[1].isArray
    /\ arrays[last.args[1].v].shape = arrays[last.self].shape
    /\ last.args[2].isArray
    /\ arrays[last.args[2].v].shape = <<1, 2>>
    /\ arrays[last.self].job # None

----------------------------------------------------------------------------
(* C6  Matmul validation.  a @ b raises ValueError, allocating nothing,   *)
(* submitting nothing and changing nothing, when a or b has rank above 3  *)
(* or the last dimension of a differs from the first dimension of b; any  *)
(* other pair of operands of rank 1 to 3 raises nothing and makes exactly *)
(* one submission.                                                        *)

Rank(x) == Len(arrays[x].shape)

MatmulRejects(a, b) ==
    \/ Rank(a) > 3
    \/ Rank(b) > 3
    \/ arrays[a].shape[Rank(a)] # arrays[b].shape[1]

C6_RejectsOrSubmitsOnce ==
    (last' # last /\ last'.call = "__matmul__") =>
        IF MatmulRejects(last'.self, last'.args[1].v)
        THEN /\ last'.raised = "ValueError"
             /\ UNCHANGED <<arrays, buffers, jobs, jobState, cache, ops>>
        ELSE /\ last'.raised = ""
             /\ Submits
             /\ SubSeq(jobs', 1, Len(jobs)) = jobs

C6_MatmulValidation == [][C6_RejectsOrSubmitsOnce]_vars

(* rejected for the rank of b alone: a is of rank <= 3 and the inner *)
(* dimensions agree                                                  *)
C6_Witness ==
    /\ last.call = "__matmul__"
    /\ last.raised = "ValueError"
    /\ Rank(last.self) <= 3
    /\ Rank(last.args[1].v) > 3
    /\ arrays[last.self].shape[Rank(last.self)] = arrays[last.args[1].v].shape[1]

----------------------------------------------------------------------------
(* C7  Matmul result and parameters.  For a valid a @ b the result shape  *)
(* is a.shape without its last dimension followed by b.shape without its  *)
(* first, or (1,) when that is empty; the parameters are (rows,           *)
(* contraction, columns), rows = a.shape[0] if rank(a) > 1 else 1,        *)
(* contraction = a.shape[-1], columns = b.shape[1] if rank(b) > 1 else 1; *)
(* the buffers are [a, b, result]; the wait list holds the pending jobs   *)
(* of a and b and nothing else.                                           *)

C7_ShapeParamsBuffersWaits ==
    (last' # last /\ last'.call = "__matmul__" /\ last'.raised = "") =>
        LET a == last'.self
            b == last'.args[1].v
            r == last'.ret
            sa == arrays[a].shape
            sb == arrays[b].shape
            joined == SubSeq(sa, 1, Len(sa) - 1) \o SubSeq(sb, 2, Len(sb))
            rows == IF Len(sa) > 1 THEN sa[1] ELSE 1
            contraction == sa[Len(sa)]
            columns == IF Len(sb) > 1 THEN sb[2] ELSE 1
        IN  /\ arrays'[r].shape = IF joined = <<>> THEN <<1>> ELSE joined
            /\ NewJob.spv = Array._matmul
            /\ NewJob.params = MatMulParams(rows, contraction, columns)
            /\ NewJob.buffers
                   = <<arrays[a].buffer, arrays[b].buffer, arrays'[r].buffer>>
            /\ Range(NewJob.semaphores)
                   = {arrays[x].job : x \in {a, b}} \ {None}

C7_MatmulResult == [][C7_ShapeParamsBuffersWaits]_vars

(* a of rank 2 times b of rank 3 whose last two dimensions differ, both *)
(* with a pending job                                                   *)
C7_Witness ==
    /\ last.call = "__matmul__"
    /\ last.raised = ""
    /\ Rank(last.self) = 2
    /\ Rank(last.args[1].v) = 3
    /\ arrays[last.args[1].v].shape[2] # arrays[last.args[1].v].shape[3]
    /\ jobs[Len(jobs)].spv = Array._matmul
    /\ Cardinality(Range(jobs[Len(jobs)].semaphores)) = 2

----------------------------------------------------------------------------
(* C8  In-place effect.  A successful in-place operation on x (+=, -=,    *)
(* *=, /=, **=, and max, min, the unary functions and clamp with          *)
(* inplace=True) allocates no Array, keeps x's buffer and shape, passes   *)
(* x's buffer as the first buffer of its one submission, makes the job    *)
(* of that submission x's pending job, and leaves every other Array as    *)
(* it was.                                                                *)

InplaceCall(c) ==
    \/ c.call \in InplaceBinaryMethods
    \/ c.call \in UnaryMethods \cup MaxMinMethods \cup {"clamp"} /\ c.inplace

C8_OnlyJobOfSelfChanges ==
    (last' # last /\ InplaceCall(last') /\ last'.raised = "") =>
        LET x == last'.self
        IN  /\ Submits
            /\ SubSeq(jobs', 1, Len(jobs)) = jobs
            /\ buffers' = buffers
            /\ NewJob.buffers[1] = arrays[x].buffer
            /\ arrays' = [arrays EXCEPT ![x].job = Len(jobs')]

C8_InplaceEffect == [][C8_OnlyJobOfSelfChanges]_vars

(* x.max(y, inplace=True) with y another Array that has a pending job *)
C8_Witness ==
    /\ last.call = "max"
    /\ last.inplace
    /\ last.raised = ""
    /\ last.args[1].isArray
    /\ last.args[1].v # last.self
    /\ arrays[last.args[1].v].job \notin {None, Len(jobs)}
    /\ arrays[last.self].job = Len(jobs)

----------------------------------------------------------------------------
(* C9  Out-of-place effect.  A successful out-of-place operation returns  *)
(* a new Array whose buffer is none of the existing buffers and whose     *)
(* shape is self's (matmul excepted), passes the new buffer as the last   *)
(* buffer of its one submission, makes the job of that submission the     *)
(* pending job of the new Array only, and leaves the operands as they     *)
(* were.                                                                  *)

OutOfPlaceCall(c) ==
    \/ c.call \in BinaryMethods \cup ReversedMethods \cup {"__matmul__"}
    \/ c.call \in UnaryMethods \cup MaxMinMethods \cup {"clamp"} /\ ~c.inplace

C9_NewArrayCarriesTheJob ==
    (last' # last /\ OutOfPlaceCall(last') /\ last'.raised = "") =>
        LET r == last'.ret
        IN  /\ Submits
            /\ SubSeq(jobs', 1, Len(jobs)) = jobs
            /\ DOMAIN arrays' = DOMAIN arrays \cup {r}
            /\ r \notin DOMAIN arrays
            /\ \A y \in DOMAIN arrays : arrays'[y] = arrays[y]
            /\ arrays'[r].buffer \in DOMAIN buffers' \ DOMAIN buffers
            /\ \A y \in DOMAIN arrays : arrays[y].buffer # arrays'[r].buffer
            /\ (last'.call # "__matmul__")
                   => arrays'[r].shape = arrays[last'.self].shape
            /\ NewJob.buffers[Len(NewJob.buffers)] = arrays'[r].buffer
            /\ arrays'[r].job = Len(jobs')

C9_OutOfPlaceEffect == [][C9_NewArrayCarriesTheJob]_vars

(* s - x with a pending job on x: the result has the new job, x keeps its *)
(* own                                                                    *)
C9_Witness ==
    /\ last.call = "__rsub__"
    /\ last.raised = ""
    /\ arrays[last.self].job \notin {None, Len(jobs)}
    /\ arrays[last.ret].job = Len(jobs)
    /\ arrays[last.ret].shape = arrays[last.self].shape

----------------------------------------------------------------------------
(* C10  Cache memoization.  On one GPU two submissions of the same        *)
(* signature (kernel file, number of buffers, parameters, local sizes     *)
(* x, y, z) get the same compiled operation, and the backend createOp     *)
(* has been called exactly once for each distinct signature submitted.    *)

Signature(j) ==
    <<jobs[j].spv, Len(jobs[j].buffers), jobs[j].params,
      jobs[j].local_size[1], jobs[j].local_size[2], jobs[j].local_size[3]>>

CreateOpCall(sig) == <<sig[2], sig[3], sig[1], sig[4], sig[5], sig[6]>>

C10_CacheMemoization ==
    /\ \A i \in DOMAIN jobs, j \in DOMAIN jobs :
           (Signature(i) = Signature(j)) <=> (jobs[i].op = jobs[j].op)
    /\ \A j \in DOMAIN jobs :
           /\ jobs[j].op \in DOMAIN ops
           /\ ops[jobs[j].op] = CreateOpCall(Signature(j))
    /\ Len(ops) = Cardinality({Signature(j) : j \in DOMAIN jobs})

(* two submissions share a signature and an operation; a third runs the *)
(* same kernel with other parameters on another operation               *)
C10_Witness ==
    \E i \in DOMAIN jobs, j \in DOMAIN jobs, k \in DOMAIN jobs :
        /\ i < j
        /\ Signature(i) = Signature(j)
        /\ jobs[i].op = jobs[j].op
        /\ jobs[k].spv = jobs[i].spv
        /\ jobs[k].params # jobs[i].params
        /\ jobs[k].op # jobs[i].op

----------------------------------------------------------------------------
(* C11  Cache growth.  No step (submission, wait, materialization,        *)
(* failed call) removes or replaces an entry of the cache of compiled     *)
(* operations; two submissions of one kernel with different element       *)
(* counts have two distinct entries; and the cache has one entry for      *)
(* each distinct signature submitted so far.                              *)

C11_EntriesAreKept ==
    /\ DOMAIN cache \subseteq DOMAIN cache'
    /\ \A key \in DOMAIN cache : cache'[key] = cache[key]

(* the element count is the first field of every parameter value *)
ElementCount(j) == jobs[j].params[2]

C11_OneEntryPerSignature ==
    /\ \A j \in DOMAIN jobs :
           /\ Signature(j) \in DOMAIN cache
           /\ cache[Signature(j)] = jobs[j].op
    /\ \A i \in DOMAIN jobs, j \in DOMAIN jobs :
           (/\ jobs[i].spv = jobs[j].spv
            /\ jobs[i].spv # Array._matmul
            /\ ElementCount(i) # ElementCount(j))
               => cache[Signature(i)] # cache[Signature(j)]
    /\ Cardinality(DOMAIN cache)
           = Cardinality({Signature(j) : j \in DOMAIN jobs})

C11_CacheGrowth == [][C11_EntriesAreKept]_vars /\ []C11_OneEntryPerSignature

(* one kernel submitted for 2 and for 4 elements, then a read that waited *)
C11_Witness ==
    /\ \E i \in DOMAIN jobs, j \in DOMAIN jobs :
           /\ jobs[i].spv = jobs[j].spv
           /\ ElementCount(i) = 2
           /\ ElementCount(j) = 4
    /\ Cardinality(DOMAIN cache) >= 2
    /\ last.call = "__getitem__"
    /\ last.waited

----------------------------------------------------------------------------
(* C12  Supersession is safe.  When the pending job of an Array is        *)
(* overwritten by a later in-place operation or cleared by a wait, the    *)
(* wait list of every submission made before is unchanged: it still       *)
(* names the old job, and only jobs older than the submission itself.     *)

C12_IssuedWaitListsAreKept ==
    \A j \in DOMAIN jobs :
        /\ j \in DOMAIN jobs'
        /\ jobs'[j].semaphores = jobs[j].semaphores

C12_WaitsForOlderJobsOnly ==
    \A j \in DOMAIN jobs : \A s \in Range(jobs[j].semaphores) : s < j

----------------------------------------------------------------------------
(* C13  Array invariant.  After any constructions, operations, reshapes   *)
(* and waits no two Arrays hold the same buffer, the product of every     *)
(* Array's shape is the element count of its buffer, and no step gives    *)
(* an existing Array another buffer or a buffer another element count.    *)

C13_BufferOwnedAndSized ==
    /\ \A x \in DOMAIN arrays, y \in DOMAIN arrays :
           (x # y) => arrays[x].buffer # arrays[y].buffer
    /\ \A x \in DOMAIN arrays :
           /\ arrays[x].buffer \in DOMAIN buffers
           /\ prod(arrays[x].shape) = buffers[arrays[x].buffer]

C13_BufferIsKept ==
    \A x \in DOMAIN arrays :
        /\ x \in DOMAIN arrays'
        /\ arrays'[x].buffer = arrays[x].buffer
        /\ buffers'[arrays[x].buffer] = buffers[arrays[x].buffer]

C13_ArrayInvariant == []C13_BufferOwnedAndSized /\ [][C13_BufferIsKept]_vars

(* an Array of 4 elements has been reshaped to (4,), a shape that no *)
(* construction and no operation gives; another Array is the result *)
(* of an operation on it, still pending                             *)
C13_Witness ==
    \E x \in DOMAIN arrays, y \in DOMAIN arrays :
        /\ arrays[x].shape = <<4>>
        /\ arrays[y].job # None
        /\ \E j \in DOMAIN jobs :
               /\ ~WritesInPlace(j)
               /\ Written(j) = arrays[y].buffer
               /\ arrays[x].buffer \in Range(jobs[j].buffers)

----------------------------------------------------------------------------
(* C14  Non-blocking submission.  Every operation that submits work can   *)
(* be issued whatever the state of the jobs submitted before, those of    *)
(* its own wait list included, and returns in the step that submits; the  *)
(* host is suspended only in Array.wait, in the materializing reads and   *)
(* in GPU.wait.                                                           *)

C14_CanBeIssued ==
    (host.pc = "idle" /\ last = ProbeArmed) =>
        \A m \in Methods, self \in DOMAIN arrays :
            \A args \in ArgLists(m, DOMAIN arrays, Scalars),
               inplace \in InplaceFlags(m) :
                ENABLED Call(m, self, args, inplace)

C14_SuspendedOnlyInWaits ==
    (host.pc # "idle") => host.call \in Materializers \cup {"GPU.wait"}

C14_ReturnsAtOnce ==
    Submits =>
        /\ host.pc = "idle"
        /\ host'.pc = "idle"
        /\ jobState' = Append(jobState, "submitted")

C14_NonBlockingSubmission ==
    /\ [](C14_CanBeIssued /\ C14_SuspendedOnlyInWaits)
    /\ [][C14_ReturnsAtOnce]_vars

(* a call has returned while a job of its wait list has not even started *)
C14_Witness ==
    /\ last.call \in Methods
    /\ last.raised = ""
    /\ host.pc = "idle"
    /\ \E s \in Range(jobs[Len(jobs)].semaphores) : jobState[s] = "submitted"

----------------------------------------------------------------------------
(* C15  Progress.  With a fair device every submitted job eventually      *)
(* completes, and every Array.wait and every materialization that blocks  *)
(* eventually returns.                                                    *)

C15_EveryJobCompletes ==
    \A j \in 1..MaxJobs :
        (j \in DOMAIN jobs) ~> (j \in DOMAIN jobs /\ jobState[j] = "done")

C15_EveryWaitReturns ==
    (host.pc = "job.wait") ~> (host.pc = "idle")

----------------------------------------------------------------------------
(* C16  Kernel naming.  For add, sub, mul, div, max, min and pow the      *)
(* kernel submitted is "op" out-of-place with an Array operand, "iop"     *)
(* in-place with an Array operand, "op_scalar" and "iop_scalar" with a    *)
(* scalar operand; for each of the 20 unary functions it is "f" when      *)
(* inplace is False and "if" when it is True.                             *)

OperatorOf(m) ==
    CASE m \in {"__add__", "__iadd__"} -> "add"
      [] m \in {"__sub__", "__isub__"} -> "sub"
      [] m \in {"__mul__", "__imul__"} -> "mul"
      [] m \in {"__truediv__", "__itruediv__"} -> "div"
      [] m \in {"__pow__", "__ipow__"} -> "pow"
      [] OTHER -> m

KernelName(c) ==
    (IF InplaceCall(c) THEN "i" ELSE "")
        \o OperatorOf(c.call)
        \o (IF c.call \notin UnaryMethods /\ ~c.args[1].isArray
            THEN "_scalar" ELSE "")
        \o ".spv"

NamedMethods ==
    BinaryMethods \cup InplaceBinaryMethods \cup MaxMinMethods
        \cup UnaryMethods

C16_SubmitsTheNamedKernel ==
    (last' # last /\ last'.call \in NamedMethods /\ last'.raised = "") =>
        /\ Submits
        /\ NewJob.spv = KernelName(last')

C16_KernelNaming == [][C16_SubmitsTheNamedKernel]_vars

(* x /= 2.0 has submitted idiv_scalar *)
C16_Witness ==
    /\ last.call = "__itruediv__"
    /\ last.raised = ""
    /\ ~last.args[1].isArray
    /\ jobs[Len(jobs)].spv = "idiv_scalar.spv"
    /\ jobs[Len(jobs)].buffers = <<arrays[last.self].buffer>>

----------------------------------------------------------------------------
(* C17  Reversed-scalar dispatch.  scalar - array, scalar / array and     *)
(* scalar ** array submit rsub_scalar, rdiv_scalar and rpow_scalar, not   *)
(* sub_scalar, div_scalar, pow_scalar; scalar + array and scalar * array  *)
(* submit the kernels of array + scalar and array * scalar; each is       *)
(* out-of-place with buffers [array, result].                             *)

ForwardOf(m) ==
    CASE m = "__radd__" -> "__add__"
      [] m = "__rsub__" -> "__sub__"
      [] m = "__rmul__" -> "__mul__"
      [] m = "__rtruediv__" -> "__truediv__"
      [] m = "__rpow__" -> "__pow__"

ForwardKernel(c) == KernelName([c EXCEPT !.call = ForwardOf(c.call)])

ReversedKernel(c) ==
    CASE c.call = "__rsub__" -> "rsub_scalar.spv"
      [] c.call = "__rtruediv__" -> "rdiv_scalar.spv"
      [] c.call = "__rpow__" -> "rpow_scalar.spv"
      [] OTHER -> ForwardKernel(c)

C17_SubmitsTheReversedKernel ==
    (last' # last /\ last'.call \in ReversedMethods) =>
        /\ last'.raised = ""
        /\ Submits
        /\ NewJob.spv = ReversedKernel(last')
        /\ (last'.call \in {"__rsub__", "__rtruediv__", "__rpow__"})
               => NewJob.spv # ForwardKernel(last')
        /\ last'.ret \notin DOMAIN arrays
        /\ NewJob.buffers
               = <<arrays[last'.self].buffer, arrays'[last'.ret].buffer>>

C17_ReversedScalar == [][C17_SubmitsTheReversedKernel]_vars

(* 2.0 / x has submitted rdiv_scalar with the scalar 2.0 *)
C17_Witness ==
    /\ last.call = "__rtruediv__"
    /\ last.args = <<ScalarArg(2)>>
    /\ jobs[Len(jobs)].spv = "rdiv_scalar.spv"
    /\ jobs[Len(jobs)].params[3] = 2
    /\ Len(jobs[Len(jobs)].buffers) = 2

----------------------------------------------------------------------------
(* C18  Clamp dispatch.  clamp submits one kernel: "clamp" when both      *)
(* bounds are Arrays, "clamp_sv" when min is a scalar and max an Array,   *)
(* "clamp_vs" when min is an Array and max a scalar, "clamp_ss" when both *)
(* are scalars, with the prefix "i" exactly when inplace; the buffers are *)
(* self, then the Array bounds, then the result when out-of-place; the    *)
(* scalar bounds are parameters, min before max; the wait list holds the  *)
(* pending jobs of self and of the Array bounds.                          *)

ClampSuffix(lo, hi) ==
    IF lo.isArray /\ hi.isArray THEN ""
    ELSE IF hi.isArray THEN "_sv"
    ELSE IF lo.isArray THEN "_vs"
    ELSE "_ss"

ArrayBounds(lo, hi) ==
    (IF lo.isArray THEN <<lo.v>> ELSE <<>>)
        \o (IF hi.isArray THEN <<hi.v>> ELSE <<>>)

ScalarBounds(lo, hi) ==
    (IF lo.isArray THEN <<>> ELSE <<lo.v>>)
        \o (IF hi.isArray THEN <<>> ELSE <<hi.v>>)

C18_SubmitsTheClampKernel ==
    (last' # last /\ last'.call = "clamp" /\ last'.raised = "") =>
        LET x == last'.self
            lo == last'.args[1]
            hi == last'.args[2]
            bounds == ArrayBounds(lo, hi)
            operands == <<x>> \o bounds
            size == buffers[arrays[x].buffer]
        IN  /\ Submits
            /\ SubSeq(jobs', 1, Len(jobs)) = jobs
            /\ NewJob.spv = (IF last'.inplace THEN "i" ELSE "") \o "clamp"
                                \o ClampSuffix(lo, hi) \o ".spv"
            /\ NewJob.buffers
                   = [i \in DOMAIN operands |-> arrays[operands[i]].buffer]
                       \o (IF last'.inplace THEN <<>>
                           ELSE <<arrays'[last'.ret].buffer>>)
            /\ Tail(Tail(NewJob.params)) = ScalarBounds(lo, hi)
            /\ NewJob.params[2] = size
            /\ Range(NewJob.semaphores)
                   = {arrays[y].job : y \in Range(operands)} \ {None}

C18_ClampDispatch == [][C18_SubmitsTheClampKernel]_vars

(* x.clamp(y, 2.0, inplace=True) with a pending job on y, another Array *)
C18_Witness ==
    /\ last.call = "clamp"
    /\ last.inplace
    /\ last.raised = ""
    /\ last.args[1].isArray
    /\ last.args[1].v # last.self
    /\ last.args[2] = ScalarArg(2)
    /\ jobs[Len(jobs)].spv = "iclamp_vs.spv"
    /\ jobs[Len(jobs)].semaphores # <<>>
    /\ jobs[Len(jobs)].buffers
           = <<arrays[last.self].buffer, arrays[last.args[1].v].buffer>>

(* x.clamp(1.0, 2.0) has packed the scalars min first *)
C18_ScalarsWitness ==
    /\ last.call = "clamp"
    /\ last.args = <<ScalarArg(1), ScalarArg(2)>>
    /\ jobs[Len(jobs)].spv = "clamp_ss.spv"
    /\ jobs[Len(jobs)].params = VectorScalar2Params(2, 1, 2)

----------------------------------------------------------------------------
(* C19  Power catalog.  As stated: power has an array-array form, an      *)
(* array-scalar form and a reversed form (scalar base, Array exponent),   *)
(* and an in-place power is submitted only when the exponent is an Array. *)

PowerMethods == {"__pow__", "__ipow__", "__rpow__"}

PowerCall == last' # last /\ last'.call \in PowerMethods /\ last'.raised = ""

(* the exponent of the call: self for the reversed form, else the operand *)
ExponentIsArray(c) == c.call = "__rpow__" \/ c.args[1].isArray

C19_InPlaceOnlyForArrayExponent ==
    (PowerCall /\ Submits /\ NewJob.spv \in InplaceSpv)
        => ExponentIsArray(last')

C19_AsStated == [][C19_InPlaceOnlyForArrayExponent]_vars

(* C19, amended: power has the three forms, and an in-place power is      *)
(* submitted exactly by **=, whose base is the Array, with an Array or a  *)
(* scalar exponent; the reversed form is always out-of-place.             *)

KernelFiles == {Array[f] : f \in DOMAIN Array}

C19_ThreeFormsInPlaceForArrayBase ==
    PowerCall =>
        LET c == last'
            x == c.self
        IN  /\ Submits
            /\ (c.call # "__ipow__")
                   => c.ret \in DOMAIN arrays' \ DOMAIN arrays
            /\ NewJob.spv =
                   (CASE c.call = "__rpow__" -> "rpow_scalar.spv"
                      [] c.call = "__pow__" /\ c.args[1].isArray -> "pow.spv"
                      [] c.call = "__pow__" /\ ~c.args[1].isArray -> "pow_scalar.spv"
                      [] c.call = "__ipow__" /\ c.args[1].isArray -> "ipow.spv"
                      [] c.call = "__ipow__" /\ ~c.args[1].isArray -> "ipow_scalar.spv")
            /\ NewJob.buffers =
                   <<arrays[x].buffer>>
                       \o (IF c.args[1].isArray
                           THEN <<arrays[c.args[1].v].buffer>> ELSE <<>>)
                       \o (IF c.call = "__ipow__" THEN <<>>
                           ELSE <<arrays'[c.ret].buffer>>)
            /\ (c.call = "__ipow__") <=> (arrays'[x].job = Len(jobs'))
            /\ "irpow_scalar.spv" \notin KernelFiles

C19_PowerCatalog == [][C19_ThreeFormsInPlaceForArrayBase]_vars

(* x **= 2.0 has submitted ipow_scalar on x's own buffer: an in-place *)
(* power with a scalar exponent                                       *)
C19_Witness ==
    /\ last.call = "__ipow__"
    /\ last.raised = ""
    /\ last.args = <<ScalarArg(2)>>
    /\ jobs[Len(jobs)].spv = "ipow_scalar.spv"
    /\ jobs[Len(jobs)].buffers = <<arrays[last.self].buffer>>
    /\ arrays[last.self].job = Len(jobs)

----------------------------------------------------------------------------
(* C20  Wait dependencies form a set.  In the wait list of a submission   *)
(* the signal of each predecessor job appears at most once, also when     *)
(* one Array occurs more than once among the operands (a + a, a += a,     *)
(* a @ a, a.clamp(b, b)).                                                 *)

C20_EachSignalAtMostOnce ==
    \A j \in DOMAIN jobs :
        \A i \in DOMAIN jobs[j].semaphores, k \in DOMAIN jobs[j].semaphores :
            (i # k) => jobs[j].semaphores[i] # jobs[j].semaphores[k]

----------------------------------------------------------------------------
(* C21  Single tracked writer.  An Array holds one pending-job reference  *)
(* or None; when not None it is the latest submission that writes the     *)
(* Array's buffer; it is None only if every job that wrote the buffer was *)
(* waited for, and a step clears it only by returning from a wait or a    *)
(* materialization of that Array.                                         *)

Writers(x) == {j \in DOMAIN jobs : Written(j) = arrays[x].buffer}

C21_TracksLatestWriter ==
    \A x \in DOMAIN arrays :
        IF arrays[x].job # None
        THEN /\ arrays[x].job \in Writers(x)
             /\ \A j \in Writers(x) : j <= arrays[x].job
        ELSE \A j \in Writers(x) : jobState[j] = "done"

C21_ClearedByWaitOnly ==
    \A x \in DOMAIN arrays :
        (arrays[x].job # None /\ arrays'[x].job = None)
            => /\ host.pc = "job.wait"
               /\ host.self = x
               /\ host.call \in Materializers
               /\ host'.pc = "idle"

C21_SingleTrackedWriter ==
    []C21_TracksLatestWriter /\ [][C21_ClearedByWaitOnly]_vars

(* two jobs write x's buffer; x tracks the later one while the earlier *)
(* one has not completed                                               *)
C21_Witness ==
    \E x \in DOMAIN arrays, e \in DOMAIN jobs :
        /\ e \in Writers(x)
        /\ arrays[x].job \notin {None, e}
        /\ jobState[e] # "done"

----------------------------------------------------------------------------
(* C22  Invalid construction.  Array() with neither data nor shape raises *)
(* ValueError, creating no buffer and submitting nothing; with data the   *)
(* Array's shape is the shape of the data and exactly one buffer is       *)
(* created; a newly constructed Array has no pending job.                 *)

ConstructorCalls ==
    {"Array()", "Array(data)", "Array(shape)", "Array(data, shape)"}

DimsOf(args, ofData) ==
    LET Chosen(a) == a.isArray = ofData
        chosen == SelectSeq(args, Chosen)
    IN  [i \in DOMAIN chosen |-> chosen[i].v]

C22_RaisesOrConstructs ==
    (last' # last /\ last'.call \in ConstructorCalls) =>
        IF last'.call = "Array()"
        THEN /\ last'.raised = "ValueError"
             /\ UNCHANGED <<arrays, buffers, jobs, jobState, cache, ops>>
        ELSE LET withData == last'.call \in {"Array(data)", "Array(data, shape)"}
                 dims == DimsOf(last'.args, withData)
             IN  /\ last'.raised = ""
                 /\ last'.ret = Len(arrays) + 1
                 /\ buffers' = Append(buffers, prod(dims))
                 /\ arrays' = Append(arrays, [shape |-> dims,
                                              buffer |-> Len(buffers'),
                                              job |-> None])
                 /\ UNCHANGED <<jobs, jobState, cache, ops>>

C22_InvalidConstruction == [][C22_RaisesOrConstructs]_vars

(* Array(gpu) has raised while jobs were pending *)
C22_Witness ==
    /\ last.call = "Array()"
    /\ last.raised = "ValueError"
    /\ \E x \in DOMAIN arrays : arrays[x].job # None
    /\ \E j \in DOMAIN jobs : jobState[j] = "running"

----------------------------------------------------------------------------
(* C23  Module call guard.  Module.__call__(x) with x of fewer than 2      *)
(* dimensions raises ValueError, forward is not called and the stored     *)
(* input and output _x, _y are as before, as is everything else; with any *)
(* other x it stores x in _x and calls forward exactly once, and when     *)
(* forward returns, its result is stored in _y and is what the call       *)
(* returns.                                                               *)

C23_RejectsOrForwardsOnce ==
    (last' # last /\ last'.call = "Module.__call__") =>
        LET x == last'.args[1].v
        IN  IF Len(arrays[x].shape) < 2
            THEN /\ last'.raised = "ValueError"
                 /\ nn'.module = nn.module
                 /\ UNCHANGED <<arrays, buffers, jobs, jobState, cache, ops>>
            ELSE /\ nn'.module._x = x
                 /\ nn'.module.forwards = nn.module.forwards + 1
                 /\ IF nn.module.class = "Module"
                    THEN /\ last'.raised = "NotImplementedError"
                         /\ nn'.module._y = nn.module._y
                    ELSE /\ last'.raised = ""
                         /\ last'.ret \in DOMAIN arrays' \ DOMAIN arrays
                         /\ nn'.module._y = last'.ret

----------------------------------------------------------------------------
(* C24  zero_grad clears the gradient.  When zero_grad is the latest of   *)
(* the Parameter's calls, after any add_grad calls, and every job has     *)
(* completed, grad holds the 0.0 the host wrote, in whatever order the    *)
(* device ran the accumulations and the host wrote.                       *)

C24_ZeroGradClears ==
    (/\ last.call = "zero_grad"
     /\ \A j \in DOMAIN jobs : jobState[j] = "done")
        => memory[arrays[nn.parameter.grad].buffer] = HostWrite(0)

----------------------------------------------------------------------------
(* C27  Host writes do not race device writes.  An assignment x[key] =    *)
(* value is made only when every job that writes the buffer of x has      *)
(* completed, so that no job submitted before the assignment writes over  *)
(* the value afterwards.                                                  *)

C27_AssignsWithNoWriterPending ==
    (last' # last /\ last'.call = "__setitem__") =>
        \A j \in Writers(last'.self) : jobState[j] = "done"

C27_HostWritesDoNotRace == [][C27_AssignsWithNoWriterPending]_vars

----------------------------------------------------------------------------
(* C25  Reshape.  reshape(shape) with dimensions whose product is not the *)
(* element count of the buffer raises ValueError and leaves the shape,    *)
(* and everything else, as it was; a reshape that succeeds changes the    *)
(* shape of that Array and nothing else: the new shape has the buffer's   *)
(* element count and is the requested one when that has no -1, the        *)
(* buffer and the pending job of the Array are the same, nothing is       *)
(* submitted and the host has not waited.                                 *)

Requested(args) == [i \in DOMAIN args |-> args[i].v]

C25_RaisesOrReshapesOnly ==
    (last' # last /\ last'.call = "reshape") =>
        LET self == last'.self
            shape == Requested(last'.args)
            size == buffers[arrays[self].buffer]
        IN  /\ ((\A i \in DOMAIN shape : shape[i] >= 0) /\ prod(shape) # size)
                   => last'.raised = "ValueError"
            /\ ((\A i \in DOMAIN shape : shape[i] >= 0) /\ prod(shape) = size)
                   => last'.raised = "" /\ arrays'[self].shape = shape
            /\ last'.raised \in {"", "ValueError"}
            /\ last'.raised = "ValueError" => arrays' = arrays
            /\ last'.raised = "" =>
                   /\ prod(arrays'[self].shape) = size
                   /\ arrays' = [arrays EXCEPT ![self].shape = arrays'[self].shape]
            /\ ~last'.waited
            /\ host.pc = "idle" /\ host'.pc = "idle"
            /\ UNCHANGED <<buffers, jobs, jobState, cache, ops, memory>>

C25_Reshape == [][C25_RaisesOrReshapesOnly]_vars

(* a matrix with a pending job has been reshaped to a vector; the job is *)
(* still pending                                                        *)
C25_Witness ==
    /\ last.call = "reshape"
    /\ last.raised = ""
    /\ arrays[last.self].shape = <<4>>
    /\ arrays[last.self].job # None
    /\ jobState[arrays[last.self].job] # "done"

----------------------------------------------------------------------------
(* C26  Write-after-read ordering.  Of two submitted jobs that touch one  *)
(* buffer, at least one of them writing it, the later waits for the       *)
(* earlier, directly or through a chain of wait lists, and is not started *)
(* before the earlier has completed; so an in-place job on x issued after *)
(* an out-of-place job that reads x (c = x + b; x += 1) does not start    *)
(* before the reading job has completed.                                  *)

(* e and l touch one buffer that one of them writes, e submitted first *)
Conflict(e, l) ==
    /\ e < l
    /\ \E b \in Range(jobs[e].buffers) \cap Range(jobs[l].buffers) :
           b \in {Written(e), Written(l)}

(* the jobs j waits for, through any number of wait lists *)
RECURSIVE WaitChain(_)
WaitChain(j) ==
    Range(jobs[j].semaphores)
        \cup UNION {WaitChain(s) : s \in Range(jobs[j].semaphores)}

C26_WriteAfterRead ==
    \A e, l \in DOMAIN jobs :
        Conflict(e, l) =>
            /\ e \in WaitChain(l) \/ jobState[e] = "done"
            /\ Started(l) => jobState[e] = "done"

----------------------------------------------------------------------------
(* C28  Matmul dispatch covers the result.  For every valid a @ b with    *)
(* operands of rank 1 to 3 the data shape of the submission is (rows,     *)
(* columns, 1) with rows * columns the number of elements of the result   *)
(* Array, the size of its newly allocated buffer.                         *)

C28_DataShapeCoversResult ==
    (last' # last /\ last'.call = "__matmul__" /\ last'.raised = "") =>
        /\ NewJob.shape[3] = 1
        /\ NewJob.shape[1] * NewJob.shape[2] = prod(arrays'[last'.ret].shape)
        /\ NewJob.shape[1] * NewJob.shape[2] = buffers'[arrays'[last'.ret].buffer]

C28_MatmulDispatch == [][C28_DataShapeCoversResult]_vars

----------------------------------------------------------------------------
(* C29  Acyclic dependencies.  Every job in the wait list of a submission *)
(* had been returned by a submission made before it; in every reachable   *)
(* state no job waits, directly or through other wait lists, for itself   *)
(* or for a job submitted after it.                                       *)

(* the jobs j waits for through at most n wait lists *)
RECURSIVE WaitsWithin(_, _)
WaitsWithin(j, n) ==
    IF n = 0 THEN {}
    ELSE Range(jobs[j].semaphores)
             \cup UNION {WaitsWithin(s, n - 1) :
                            s \in Range(jobs[j].semaphores) \cap DOMAIN jobs}

C29_WaitsForIssuedJobs ==
    Submits => Range(NewJob.semaphores) \subseteq DOMAIN jobs

C29_NoJobWaitsForItselfOrLater ==
    \A j \in DOMAIN jobs :
        \A s \in WaitsWithin(j, Len(jobs)) : s \in DOMAIN jobs /\ s < j

====
